---- MODULE Spec2Model ----
(***************************************************************************)
(* A model of the retrieval core of hf-rag: the catalog extractor          *)
(* (src/chunking/catalog_extractor.py), the catalog based splitter         *)
(* (src/chunking/catalog_splitter.py) and the persisted vector store       *)
(* (src/retrieval/search.py) with the chunk replacement flow of            *)
(* src/api/routes.py.                                                      *)
(*                                                                         *)
(* A Python str is a sequence of one-character strings, so that split,     *)
(* strip, join, len and the header regular expression are computed, not    *)
(* assumed.                                                                *)
(***************************************************************************)
EXTENDS Integers, Sequences, FiniteSets, TLC

(***************************************************************************)
(* Bounds of the model.                                                    *)
(***************************************************************************)
\* the longest input text, in lines
MaxLines == 4
\* a max_chunk_size below the length of every section (an anchor alone is longer)
SmallChunkSize == 4
\* a max_chunk_size that some sections exceed and others do not
MidChunkSize == 25
\* the number of calls that draw a document id or a timestamp
MaxCalls == 3
\* the most paragraphs of a text handed to the paragraph grouping
MaxParagraphs == 3

(***************************************************************************)
(* Python str helpers.                                                     *)
(***************************************************************************)
NL == "\n"

\* str.strip() and the regular expression's \s: the whitespace of the alphabet
CR == "\r"

IsSpace(c) == c \in {" ", NL, CR}

Min(a, b) == IF a < b THEN a ELSE b

Max(a, b) == IF a > b THEN a ELSE b

\* s[n:]
Drop(s, n) == SubSeq(s, Min(n, Len(s)) + 1, Len(s))

\* s[a:b] of Python (0-based, end exclusive, clamped to the sequence)
Slice(s, a, b) == SubSeq(s, Max(a, 0) + 1, Min(b, Len(s)))

\* s.startswith(p)
StartsWith(s, p) == Len(p) <= Len(s) /\ SubSeq(s, 1, Len(p)) = p

RECURSIVE LStrip(_)
LStrip(s) ==
  IF s = <<>> THEN s
  ELSE IF IsSpace(Head(s)) THEN LStrip(Tail(s)) ELSE s

RECURSIVE RStrip(_)
RStrip(s) ==
  IF s = <<>> THEN s
  ELSE IF IsSpace(s[Len(s)]) THEN RStrip(SubSeq(s, 1, Len(s) - 1)) ELSE s

\* str.strip()
Strip(s) == RStrip(LStrip(s))

\* the positions at or after from where sep occurs in s
MatchesFrom(s, sep, from) ==
  {i \in from..(Len(s) - Len(sep) + 1) : SubSeq(s, i, i + Len(sep) - 1) = sep}

\* str.find(sep, from - 1) + 1: the first occurrence at or after from, 0 if none
FindFrom(s, sep, from) ==
  LET m == MatchesFrom(s, sep, from)
  IN  IF m = {} THEN 0 ELSE CHOOSE i \in m : \A j \in m : i <= j

RECURSIVE SplitFrom(_, _, _)
SplitFrom(s, sep, from) ==
  LET i == FindFrom(s, sep, from)
  IN  IF i = 0 THEN <<SubSeq(s, from, Len(s))>>
      ELSE <<SubSeq(s, from, i - 1)>> \o SplitFrom(s, sep, i + Len(sep))

\* str.split(sep): left to right, non-overlapping; never returns an empty list
SplitOn(s, sep) == SplitFrom(s, sep, 1)

RECURSIVE Join(_, _)
\* sep.join(parts)
Join(parts, sep) ==
  IF parts = <<>> THEN <<>>
  ELSE IF Len(parts) = 1 THEN parts[1]
  ELSE parts[1] \o sep \o Join(Tail(parts), sep)

RECURSIVE CountLeading(_, _)
\* the length of the longest prefix of s made of characters of the set cs
CountLeading(s, cs) ==
  IF s = <<>> \/ Head(s) \notin cs THEN 0 ELSE 1 + CountLeading(Tail(s), cs)

(***************************************************************************)
(* CatalogExtractor                                                        *)
(***************************************************************************)
\* Optional[int] = None for end_line
None == -1

\* Optional['CatalogItem'] = None for parent; a node is named by its
\* position in catalog_items (1-based)
NoParent == 0

\* header_pattern = ^(#{1,6})\s+(.+)$ matched at the start of one line
HashCount(line) == CountLeading(line, {"#"})

AfterHashes(line) == Drop(line, HashCount(line))

SpaceCount(line) == CountLeading(AfterHashes(line), {" "})

AfterSpaces(line) == Drop(AfterHashes(line), SpaceCount(line))

\* \s+ is greedy and gives back one character when nothing else is left for (.+)
header_pattern_match(line) ==
  /\ HashCount(line) \in 1..6
  /\ \/ SpaceCount(line) >= 1 /\ AfterSpaces(line) # <<>>
     \/ SpaceCount(line) >= 2 /\ AfterSpaces(line) = <<>>

\* len(match.group(1))
HeaderLevel(line) == HashCount(line)

\* match.group(2).strip()
HeaderTitle(line) ==
  Strip(IF AfterSpaces(line) # <<>> THEN AfterSpaces(line) ELSE <<" ">>)

CatalogItem(level, title, start_line, parent) ==
  [level |-> level, title |-> title, start_line |-> start_line,
   end_line |-> None, parent |-> parent, children |-> <<>>]

PathSep == <<" ", ">", " ">>

RECURSIVE get_full_path(_, _)
get_full_path(items, i) ==
  IF items[i].parent = NoParent THEN items[i].title
  ELSE get_full_path(items, items[i].parent) \o PathSep \o items[i].title

\* a stack that is never popped
PopStack_Never(items, stack, level) == stack

RECURSIVE PopStack(_, _, _)
\* while stack and stack[-1].level >= level: stack.pop()
PopStack(items, stack, level) ==
  IF stack # <<>> /\ items[stack[Len(stack)]].level >= level
  THEN PopStack(items, SubSeq(stack, 1, Len(stack) - 1), level)
  ELSE stack

RECURSIVE FirstLower(_, _, _, _)
\* for item in reversed(stack): if item.level < level: ... break
\* the position in the stack of the first such item from the top, 0 if none
FirstLower(items, stack, level, k) ==
  IF k = 0 THEN 0
  ELSE IF items[stack[k]].level < level THEN k
  ELSE FirstLower(items, stack, level, k - 1)

\* if item.end_line is None: item.end_line = current_line - 1
CloseItem(items, i, line) ==
  IF items[i].end_line = None
  THEN [items EXCEPT ![i].end_line = line]
  ELSE items

\* "Close previous item at same or higher level"
ClosePrevious(items, stack, level, current_line) ==
  LET k == FirstLower(items, stack, level, Len(stack))
  IN  IF k = 0 THEN items ELSE CloseItem(items, stack[k], current_line - 1)

AnchorOpen == <<"<", "!", "-", "-", " ", "c", "a", "t", "a", "l", "o", "g", ":">>

AnchorClose == <<" ", "-", "-", ">">>

\* the state of the loop of extract
ExtractStart ==
  [catalog_items |-> <<>>, stack |-> <<>>, markdown_with_anchors |-> <<>>,
   current_line |-> 0]

\* one iteration of "for i, line in enumerate(lines)"
ExtractLine(st, line) ==
  IF header_pattern_match(line)
  THEN LET level == HeaderLevel(line)
           title == HeaderTitle(line)
           stack1 == PopStack(st.catalog_items, st.stack, level)
           parent == IF stack1 # <<>> THEN stack1[Len(stack1)] ELSE NoParent
           closed == ClosePrevious(st.catalog_items, stack1, level, st.current_line)
           me == Len(closed) + 1
           appended == Append(closed, CatalogItem(level, title, st.current_line, parent))
           linked == IF parent # NoParent
                     THEN [appended EXCEPT ![parent].children = Append(@, me)]
                     ELSE appended
       IN  [catalog_items |-> linked,
            stack |-> Append(stack1, me),
            markdown_with_anchors |->
              Append(st.markdown_with_anchors,
                     line \o <<NL>> \o AnchorOpen \o get_full_path(linked, me) \o AnchorClose),
            current_line |-> st.current_line + 1]
  ELSE [st EXCEPT !.markdown_with_anchors = Append(@, line),
                  !.current_line = @ + 1]

RECURSIVE ExtractLoop(_, _)
ExtractLoop(st, lines) ==
  IF lines = <<>> THEN st ELSE ExtractLoop(ExtractLine(st, Head(lines)), Tail(lines))

RECURSIVE CloseRemaining(_, _, _)
\* for item in stack: if item.end_line is None: item.end_line = current_line - 1
CloseRemaining(items, stack, current_line) ==
  IF stack = <<>> THEN items
  ELSE CloseRemaining(CloseItem(items, Head(stack), current_line - 1),
                      Tail(stack), current_line)

\* CatalogExtractor.extract: (catalog_items, markdown_with_anchors)
extract(markdown) ==
  LET st == ExtractLoop(ExtractStart, SplitOn(markdown, <<NL>>))
  IN  [catalog_items |-> CloseRemaining(st.catalog_items, st.stack, st.current_line),
       processed_markdown |-> Join(st.markdown_with_anchors, <<NL>>)]

(***************************************************************************)
(* CatalogBasedSplitter                                                    *)
(***************************************************************************)
\* max_chunk_size: int = 2000
DEFAULT_MAX_CHUNK_SIZE == 2000

\* the marker of the fallback path, one token per character of the literal
UNCATEGORIZED == <<"wei", "fen", "lei">>

\* [p.strip() for p in content.split('\n\n') if p.strip()]
RECURSIVE StripNonEmpty(_)
StripNonEmpty(parts) ==
  IF parts = <<>> THEN <<>>
  ELSE IF Strip(Head(parts)) # <<>>
       THEN <<Strip(Head(parts))>> \o StripNonEmpty(Tail(parts))
       ELSE StripNonEmpty(Tail(parts))

Paragraphs(content) == StripNonEmpty(SplitOn(content, <<NL, NL>>))

\* the state of the grouping loop: chunks, current_chunk, current_size
GroupStart == [chunks |-> <<>>, current_chunk |-> <<>>, current_size |-> 0]

\* one iteration of "for para in paragraphs"
GroupPara(g, para, max_chunk_size) ==
  IF g.current_size + Len(para) > max_chunk_size /\ g.current_chunk # <<>>
  THEN [chunks |-> Append(g.chunks, Join(g.current_chunk, <<NL, NL>>)),
        current_chunk |-> <<para>>,
        current_size |-> Len(para)]
  ELSE [chunks |-> g.chunks,
        current_chunk |-> Append(g.current_chunk, para),
        current_size |-> g.current_size + Len(para) + 2]

RECURSIVE GroupLoop(_, _, _)
GroupLoop(g, paragraphs, max_chunk_size) ==
  IF paragraphs = <<>> THEN g
  ELSE GroupLoop(GroupPara(g, Head(paragraphs), max_chunk_size),
                 Tail(paragraphs), max_chunk_size)

\* chunks after the loop and the final "if current_chunk: chunks.append(...)"
GroupedChunks(content, max_chunk_size) ==
  LET g == GroupLoop(GroupStart, Paragraphs(content), max_chunk_size)
  IN  IF g.current_chunk # <<>>
      THEN Append(g.chunks, Join(g.current_chunk, <<NL, NL>>))
      ELSE g.chunks

\* return chunks if chunks else [content]
ChunksOrContent(chunks_, content) == IF chunks_ # <<>> THEN chunks_ ELSE <<content>>

split_large_section(content, max_chunk_size) ==
  ChunksOrContent(GroupedChunks(content, max_chunk_size), content)

\* a fallback that forgets "else [content]"
fallback_split_NoDefault(content, max_chunk_size) ==
  GroupedChunks(content, max_chunk_size)

fallback_split(content, max_chunk_size) ==
  ChunksOrContent(GroupedChunks(content, max_chunk_size), content)

\* '\n'.join(lines[item.start_line:item.end_line + 1]).strip()
SectionContent(lines, item) ==
  Strip(Join(Slice(lines, item.start_line, item.end_line + 1), <<NL>>))

SubChunkMeta(items, i, idx) ==
  [catalog_path |-> get_full_path(items, i), catalog_title |-> items[i].title,
   catalog_level |-> items[i].level, chunk_index |-> idx, is_subchunk |-> TRUE]

SectionMeta(items, i) ==
  [catalog_path |-> get_full_path(items, i), catalog_title |-> items[i].title,
   catalog_level |-> items[i].level, chunk_index |-> 0, is_subchunk |-> FALSE]

FallbackMeta ==
  [catalog_path |-> UNCATEGORIZED, catalog_title |-> UNCATEGORIZED, catalog_level |-> 0]

\* the metadata appended once per section instead of once per sub-chunk
ItemChunks_MetaOncePerSection(items, lines, i, max_chunk_size) ==
  LET section_content == SectionContent(lines, items[i])
  IN  IF items[i].end_line = None \/ section_content = <<>>
      THEN [chunks |-> <<>>, meta |-> <<>>]
      ELSE IF Len(section_content) > max_chunk_size
      THEN [chunks |-> split_large_section(section_content, max_chunk_size),
            meta |-> <<SubChunkMeta(items, i, 0)>>]
      ELSE [chunks |-> <<section_content>>, meta |-> <<SectionMeta(items, i)>>]

\* the chunks and the metadata one catalog item contributes
ItemChunks(items, lines, i, max_chunk_size) ==
  LET section_content == SectionContent(lines, items[i])
  IN  IF items[i].end_line = None \/ section_content = <<>>
      THEN [chunks |-> <<>>, meta |-> <<>>]
      ELSE IF Len(section_content) > max_chunk_size
      THEN LET sub_chunks == split_large_section(section_content, max_chunk_size)
           IN  [chunks |-> sub_chunks,
                meta |-> [idx \in 1..Len(sub_chunks) |-> SubChunkMeta(items, i, idx - 1)]]
      ELSE [chunks |-> <<section_content>>, meta |-> <<SectionMeta(items, i)>>]

RECURSIVE SplitItems(_, _, _, _, _)
\* "for item in catalog_items" of split, from item i on
SplitItems(items, lines, i, max_chunk_size, acc) ==
  IF i > Len(items) THEN acc
  ELSE LET c == ItemChunks(items, lines, i, max_chunk_size)
       IN  SplitItems(items, lines, i + 1, max_chunk_size,
                      [chunks |-> acc.chunks \o c.chunks,
                       chunk_metadata_list |-> acc.chunk_metadata_list \o c.meta])

\* CatalogBasedSplitter.split: (catalog_items, chunks, chunk_metadata_list)
split(markdown, max_chunk_size) ==
  LET ex == extract(markdown)
      lines == SplitOn(ex.processed_markdown, <<NL>>)
      byCatalog == SplitItems(ex.catalog_items, lines, 1, max_chunk_size,
                              [chunks |-> <<>>, chunk_metadata_list |-> <<>>])
      fallback == fallback_split(markdown, max_chunk_size)
  IN  IF byCatalog.chunks # <<>>
      THEN [catalog_items |-> ex.catalog_items,
            chunks |-> byCatalog.chunks,
            chunk_metadata_list |-> byCatalog.chunk_metadata_list]
      ELSE [catalog_items |-> ex.catalog_items,
            chunks |-> fallback,
            chunk_metadata_list |-> [k \in 1..Len(fallback) |-> FallbackMeta]]

(***************************************************************************)
(* VectorStore: the records and the two durable artifacts.                 *)
(***************************************************************************)
\* np.float32 keeps every F32Grid-th value of the inputs' number line
F32Grid == 2

\* a component converted to float32: the nearest representable value below
RoundF32(x) == x - (x % F32Grid)

\* np.array(vector, dtype=np.float32)
AsFloat32(vector) ==
  [dtype |-> "float32", data |-> [k \in 1..Len(vector) |-> RoundF32(vector[k])]]

\* chunk.vector.tolist(): Python floats holding the float32 values
ToList(array) == array.data

\* created_at: a datetime, its str() and its isoformat()
Datetime(t) == [datetime |-> t]

DatetimeStr(dt) == [str |-> dt.datetime]

ParseDatetime(text) == [datetime |-> text.str]

IsoFormat(dt) == [iso |-> dt.datetime]

\* {**base, **over}
Merge(base, over) ==
  [k \in DOMAIN base \cup DOMAIN over |->
     IF k \in DOMAIN over THEN over[k] ELSE base[k]]

DocumentMetadata(document_id, filename, created_at, num_chunks) ==
  [document_id |-> document_id, filename |-> filename,
   created_at |-> created_at, num_chunks |-> num_chunks]

\* ids numbered from 1
ChunkId_OneBased(document_id, idx) == <<document_id, idx + 1>>

\* chunk_id = f"{document_id}:{idx}"
ChunkId(document_id, idx) == <<document_id, idx>>

\* chunk_metadata_list[idx] if chunk_metadata_list and idx < len(chunk_metadata_list) else {}
ChunkMeta(chunk_metadata_list_, idx) ==
  IF idx < Len(chunk_metadata_list_) THEN chunk_metadata_list_[idx + 1] ELSE <<>>

ChunkRecord(document_id, idx, chunk, vector, filename, created_at, chunk_meta) ==
  [chunk_id |-> ChunkId(document_id, idx),
   document_id |-> document_id,
   content |-> chunk,
   vector |-> AsFloat32(vector),
   metadata |-> Merge([source |-> filename, filename |-> filename,
                       chunk_index |-> idx, created_at |-> IsoFormat(created_at)],
                      chunk_meta)]

\* the records of "for idx, (chunk, vector) in enumerate(zip(chunks, vectors))"
ZipRecords(document_id, chunks_, vectors, filename, created_at, chunk_metadata_list_) ==
  [k \in 1..Min(Len(chunks_), Len(vectors)) |->
     ChunkRecord(document_id, k - 1, chunks_[k], vectors[k], filename, created_at,
                 ChunkMeta(chunk_metadata_list_, k - 1))]

\* self._documents[document_id] = metadata, on an insertion-ordered dict
DictSet(documents, metadata) ==
  IF \E k \in 1..Len(documents) : documents[k].document_id = metadata.document_id
  THEN [k \in 1..Len(documents) |->
          IF documents[k].document_id = metadata.document_id
          THEN metadata ELSE documents[k]]
  ELSE Append(documents, metadata)

\* a filter that removes nothing
FilterChunks_KeepsAll(chunks_, document_id, keep) == chunks_

\* [c for c in chunks if keep(c)] on a list of chunk records
RECURSIVE FilterChunks(_, _, _)
FilterChunks(chunks_, document_id, keep) ==
  IF chunks_ = <<>> THEN <<>>
  ELSE IF (Head(chunks_).document_id = document_id) = keep
       THEN <<Head(chunks_)>> \o FilterChunks(Tail(chunks_), document_id, keep)
       ELSE FilterChunks(Tail(chunks_), document_id, keep)

\* a file of the store directory: absent, written, or cut short by a failed write
AbsentFile == [state |-> "absent", data |-> <<>>]

WrittenFile(data) == [state |-> "written", data |-> data]

CorruptFile == [state |-> "corrupt", data |-> <<>>]

\* serializable_chunks of _persist
SerializableChunks(chunks_) ==
  [k \in 1..Len(chunks_) |->
     [chunk_id |-> chunks_[k].chunk_id,
      document_id |-> chunks_[k].document_id,
      content |-> chunks_[k].content,
      vector |-> ToList(chunks_[k].vector),
      metadata |-> chunks_[k].metadata]]

\* [doc.model_dump() for doc in self._documents.values()] under default=str
DumpDocuments(documents) ==
  [k \in 1..Len(documents) |->
     [documents[k] EXCEPT !.created_at = DatetimeStr(@)]]

\* the chunk records _load builds from pickle.load(fh)
LoadChunks(raw_chunks) ==
  [k \in 1..Len(raw_chunks) |->
     [chunk_id |-> raw_chunks[k].chunk_id,
      document_id |-> raw_chunks[k].document_id,
      content |-> raw_chunks[k].content,
      vector |-> AsFloat32(raw_chunks[k].vector),
      metadata |-> raw_chunks[k].metadata]]

RECURSIVE LoadDocuments(_)
\* {doc["document_id"]: DocumentMetadata(**doc) for doc in data}
LoadDocuments(data) ==
  IF data = <<>> THEN <<>>
  ELSE DictSet(LoadDocuments(SubSeq(data, 1, Len(data) - 1)),
               [data[Len(data)] EXCEPT !.created_at = ParseDatetime(@)])

\* a _load that takes a file it cannot parse for a file that is not there
load_SkipsCorrupt(index, metadata) ==
  [raised |-> FALSE,
   chunks |-> IF index.state = "written" THEN LoadChunks(index.data) ELSE <<>>,
   documents |-> IF metadata.state = "written"
                 THEN LoadDocuments(metadata.data) ELSE <<>>]

\* VectorStore._load on the two files: what __init__ leaves in memory, or the
\* exception of pickle.load / json.load on a file that cannot be parsed
load(index, metadata) ==
  IF index.state = "corrupt" \/ metadata.state = "corrupt"
  THEN [raised |-> TRUE, chunks |-> <<>>, documents |-> <<>>]
  ELSE [raised |-> FALSE,
        chunks |-> IF index.state = "written" THEN LoadChunks(index.data) ELSE <<>>,
        documents |-> IF metadata.state = "written"
                      THEN LoadDocuments(metadata.data) ELSE <<>>]

\* the points of _persist an I/O error or the end of the process can hit
PersistPoints == {"index_open", "index_dump", "metadata_open", "metadata_dump"}

\* the points of clear
ClearPoints == {"index_unlink", "metadata_unlink"}

NoFault == [kind |-> "none", point |-> "none"]

Faults(points) ==
  {NoFault} \cup {[kind |-> k, point |-> p] : k \in {"raise", "crash"}, p \in points}

\* open("wb") truncates, so a write that fails after it leaves a cut file
IndexAfterPersist(index, chunks_, fault) ==
  IF fault.point = "index_open" THEN index
  ELSE IF fault.point = "index_dump" THEN CorruptFile
  ELSE WrittenFile(SerializableChunks(chunks_))

MetadataAfterPersist(metadata, documents, fault) ==
  IF fault.point \in {"index_open", "index_dump", "metadata_open"} THEN metadata
  ELSE IF fault.point = "metadata_dump" THEN CorruptFile
  ELSE WrittenFile(DumpDocuments(documents))

\* a _persist that writes index.pkl and leaves documents.json as it was
persist_IndexOnly(index, metadata, documents, chunks_, fault) ==
  [index_file |-> IndexAfterPersist(index, chunks_, fault),
   metadata_file |-> metadata]

\* VectorStore._persist: the two files after the call
persist(index, metadata, documents, chunks_, fault) ==
  [index_file |-> IndexAfterPersist(index, chunks_, fault),
   metadata_file |-> MetadataAfterPersist(metadata, documents, fault)]

\* how a call with this fault ends for its caller
Outcome(fault) ==
  IF fault.kind = "none" THEN "ok"
  ELSE IF fault.kind = "raise" THEN "raised" ELSE "crashed"

\* list_documents
list_documents(documents) == documents

\* stats
stats(documents, chunks_) == <<Len(documents), Len(chunks_)>>

\* get_chunks_by_document
get_chunks_by_document(chunks_, document_id) == FilterChunks(chunks_, document_id, TRUE)

(***************************************************************************)
(* VectorStore.search.  A score is the cosine of a chunk vector and the    *)
(* query vector; it is kept as the exact fraction sign(dot) * dot^2 over   *)
(* |v|^2 * |q|^2, which orders the same way as the cosine does.  The       *)
(* 1e-10 added to each norm makes the score of a zero vector 0.            *)
(***************************************************************************)
\* document_id = None, which "if document_id:" takes for no filter
NoDocumentId == 0

RECURSIVE Dot(_, _)
Dot(v, q) ==
  IF v = <<>> \/ q = <<>> THEN 0
  ELSE Head(v) * Head(q) + Dot(Tail(v), Tail(q))

Fraction(num, den) == [num |-> num, den |-> den]

Sign(x) == IF x > 0 THEN 1 ELSE IF x < 0 THEN -1 ELSE 0

\* np.dot(vector / (norm(vector) + 1e-10), query_vector / (norm(query_vector) + 1e-10))
Score(vector, query_vector) ==
  LET dot == Dot(vector.data, query_vector)
      den == Dot(vector.data, vector.data) * Dot(query_vector, query_vector)
  IN  IF den = 0 THEN Fraction(0, 1) ELSE Fraction(Sign(dot) * dot * dot, den)

\* a < b on scores
ScoreLess(a, b) == a.num * b.den < b.num * a.den

\* a threshold p/q with q > 0, on the scale of the scores
Threshold(p, q) == Fraction(Sign(p) * p * p, q * q)

\* a candidate set that ignores the filter
chunks_to_search_Unfiltered(chunks_, document_id) == chunks_

\* chunks_to_search: self._chunks, or the chunks of document_id when one is given
chunks_to_search(chunks_, document_id) ==
  IF document_id # NoDocumentId THEN FilterChunks(chunks_, document_id, TRUE) ELSE chunks_

\* scores = np.dot(matrix_norm, query_norm)
Scores(candidates, query_vector) ==
  [k \in 1..Len(candidates) |-> Score(candidates[k].vector, query_vector)]

\* seq[:n]
Take(seq, n) == SubSeq(seq, 1, Min(n, Len(seq)))

RECURSIVE Ranked(_, _, _, _)
\* the first n indices of S in an order of the scores, descending or
\* ascending, with equal scores in any order
Ranked(scores, S, n, descending) ==
  IF n = 0 \/ S = {} THEN {<<>>}
  ELSE UNION {{<<i>> \o rest : rest \in Ranked(scores, S \ {i}, n - 1, descending)} :
              i \in {j \in S : \A k \in S :
                       IF descending THEN ~ScoreLess(scores[j], scores[k])
                       ELSE ~ScoreLess(scores[k], scores[j])}}

\* the argsort order used as it is, lowest score first
ranked_indices_Ascending(scores, top_k) == Ranked(scores, DOMAIN scores, top_k * 2, FALSE)

\* np.argsort(scores)[::-1][:top_k * 2]: every window an argsort order gives
ranked_indices(scores, top_k) == Ranked(scores, DOMAIN scores, top_k * 2, TRUE)

ChunkResult(chunk, score) ==
  [content |-> chunk.content, score |-> score, metadata |-> chunk.metadata]

RECURSIVE ResultLoop_NoBreak(_, _, _, _, _, _)
\* the loop without "if len(results) >= top_k: break"
ResultLoop_NoBreak(ranked, candidates, scores, top_k, threshold, results) ==
  IF ranked = <<>> THEN results
  ELSE LET idx == Head(ranked)
       IN  IF ScoreLess(scores[idx], threshold)
           THEN ResultLoop_NoBreak(Tail(ranked), candidates, scores, top_k, threshold, results)
           ELSE ResultLoop_NoBreak(Tail(ranked), candidates, scores, top_k, threshold,
                                   Append(results, ChunkResult(candidates[idx], scores[idx])))

RECURSIVE ResultLoop(_, _, _, _, _, _)
\* for idx in ranked_indices: skip a score below the threshold, append the
\* result, stop at top_k results
ResultLoop(ranked, candidates, scores, top_k, threshold, results) ==
  IF ranked = <<>> THEN results
  ELSE LET idx == Head(ranked)
       IN  IF ScoreLess(scores[idx], threshold)
           THEN ResultLoop(Tail(ranked), candidates, scores, top_k, threshold, results)
           ELSE LET results1 == Append(results, ChunkResult(candidates[idx], scores[idx]))
                IN  IF Len(results1) >= top_k THEN results1
                    ELSE ResultLoop(Tail(ranked), candidates, scores, top_k, threshold,
                                    results1)

\* VectorStore.search: the result list for every window argsort can give
search(chunks_, query_vector, top_k, threshold, document_id) ==
  LET candidates == chunks_to_search(chunks_, document_id)
      scores == Scores(candidates, query_vector)
  IN  IF candidates = <<>> THEN {<<>>}
      ELSE {ResultLoop(ranked, candidates, scores, top_k, threshold, <<>>) :
              ranked \in ranked_indices(scores, top_k)}

(***************************************************************************)
(* VectorStore.search_catalog_fulltext.                                    *)
(***************************************************************************)
UpperCase == <<"A", "B", "S", "T", "X">>

LowerCase == <<"a", "b", "s", "t", "x">>

\* str.lower(), on the letters the texts are written with
Lower(text) ==
  [k \in 1..Len(text) |->
     IF \E i \in 1..Len(UpperCase) : UpperCase[i] = text[k]
     THEN LowerCase[CHOOSE i \in 1..Len(UpperCase) : UpperCase[i] = text[k]]
     ELSE text[k]]

\* needle in text
Contains(text, needle) ==
  \E i \in 1..(Len(text) - Len(needle) + 1) :
    SubSeq(text, i, i + Len(needle) - 1) = needle

\* metadata.get(key, default)
MetaGet(metadata, key, default) ==
  IF key \in DOMAIN metadata THEN metadata[key] ELSE default

\* catalog_path = chunk.metadata.get("catalog_path", "未分类")
GroupPath(chunk) == MetaGet(chunk.metadata, "catalog_path", UNCATEGORIZED)

\* catalog_groups[catalog_path].append(chunk), on an insertion-ordered dict
GroupAdd(catalog_groups, chunk) ==
  IF \E k \in 1..Len(catalog_groups) : catalog_groups[k].catalog_path = GroupPath(chunk)
  THEN [k \in 1..Len(catalog_groups) |->
          IF catalog_groups[k].catalog_path = GroupPath(chunk)
          THEN [catalog_groups[k] EXCEPT !.chunks = Append(@, chunk)]
          ELSE catalog_groups[k]]
  ELSE Append(catalog_groups, [catalog_path |-> GroupPath(chunk), chunks |-> <<chunk>>])

RECURSIVE CatalogGroups(_, _)
\* "for chunk in chunks_to_search" of the grouping
CatalogGroups(candidates, catalog_groups) ==
  IF candidates = <<>> THEN catalog_groups
  ELSE CatalogGroups(Tail(candidates), GroupAdd(catalog_groups, Head(candidates)))

\* catalog_title = chunks[0].metadata.get("catalog_title", "")
GroupTitle(group) == MetaGet(group.chunks[1].metadata, "catalog_title", <<>>)

Contents(chunks_) == [k \in 1..Len(chunks_) |-> chunks_[k].content]

\* a result that carries the first chunk of the group only
GroupResult_FirstChunkOnly(group) ==
  [catalog_path |-> group.catalog_path,
   catalog_title |-> GroupTitle(group),
   catalog_level |-> MetaGet(group.chunks[1].metadata, "catalog_level", 0),
   content |-> group.chunks[1].content,
   chunks |-> <<group.chunks[1].content>>,
   document_id |-> group.chunks[1].document_id]

\* the dict appended to results for a group
GroupResult(group) ==
  [catalog_path |-> group.catalog_path,
   catalog_title |-> GroupTitle(group),
   catalog_level |-> MetaGet(group.chunks[1].metadata, "catalog_level", 0),
   content |-> Join(Contents(group.chunks), <<NL, NL>>),
   chunks |-> Contents(group.chunks),
   document_id |-> group.chunks[1].document_id]

\* query_lower in catalog_path.lower() or query_lower in catalog_title.lower()
TitleMatches(group, query_lower) ==
  \/ Contains(Lower(group.catalog_path), query_lower)
  \/ Contains(Lower(GroupTitle(group)), query_lower)

\* a content branch that never looks at the chunks
ContentLoop_TitleOnly(group, members, query_lower, results) == results

RECURSIVE ContentLoop(_, _, _, _)
\* "for chunk in chunks" of the content branch: at the first chunk that holds
\* the query, append the group unless its path is in results already, and break
ContentLoop(group, members, query_lower, results) ==
  IF members = <<>> THEN results
  ELSE IF Contains(Lower(Head(members).content), query_lower)
       THEN IF \E k \in 1..Len(results) : results[k].catalog_path = group.catalog_path
            THEN results
            ELSE Append(results, GroupResult(group))
       ELSE ContentLoop(group, Tail(members), query_lower, results)

RECURSIVE GroupLoopFulltext(_, _, _)
\* "for catalog_path, chunks in catalog_groups.items()"
GroupLoopFulltext(catalog_groups, query_lower, results) ==
  IF catalog_groups = <<>> THEN results
  ELSE LET group == Head(catalog_groups)
       IN  GroupLoopFulltext(
             Tail(catalog_groups), query_lower,
             IF TitleMatches(group, query_lower)
             THEN Append(results, GroupResult(group))
             ELSE ContentLoop(group, group.chunks, query_lower, results))

\* VectorStore.search_catalog_fulltext
search_catalog_fulltext(chunks_, query, document_id) ==
  LET candidates == chunks_to_search(chunks_, document_id)
  IN  IF candidates = <<>> THEN <<>>
      ELSE GroupLoopFulltext(CatalogGroups(candidates, <<>>), Lower(query), <<>>)

(***************************************************************************)
(* State.                                                                  *)
(***************************************************************************)
VARIABLES
  \* the chunking pipeline: the input of one call and what it returned
  markdown, max_chunk_size, phase, catalog_items, chunks, chunk_metadata_list,
  \* one call of EmbeddingGenerator.embed and one of MarkdownTextSplitter.split:
  \* their arguments, their locals and what they returned
  embedding, text_splitter,
  \* VectorStore: self._documents (insertion-ordered), self._chunks
  store_documents, store_chunks,
  \* the store directory: index.pkl and documents.json
  index_file, metadata_file,
  \* whether a process holds the store, the clock behind uuid4() and utcnow(),
  \* and the call that was made last with how it ended
  up, clock, last,
  \* for each thread that calls the store, where it is inside its call
  threads

callVars == <<embedding, text_splitter>>

catVars ==
  <<markdown, max_chunk_size, phase, catalog_items, chunks, chunk_metadata_list, callVars>>

memVars == <<store_documents, store_chunks>>

diskVars == <<index_file, metadata_file>>

storeVars ==
  <<store_documents, store_chunks, index_file, metadata_file, up, clock, last, threads>>

vars == <<catVars, storeVars>>

\* the pipeline before any call
\* no call of embed, no call of MarkdownTextSplitter.split
EmbedIdle == [pc |-> "idle"]

SplitterIdle == [pc |-> "idle"]

CatalogIdle ==
  /\ markdown = <<>>
  /\ max_chunk_size = DEFAULT_MAX_CHUNK_SIZE
  /\ phase = "input"
  /\ catalog_items = <<>>
  /\ chunks = <<>>
  /\ chunk_metadata_list = <<>>
  /\ embedding = EmbedIdle
  /\ text_splitter = SplitterIdle

NoCall == [op |-> "none", outcome |-> "ok", args |-> <<>>]

\* the threads of the process that share the one VectorStore
Threads == {1, 2}

\* a thread that is in no call
Idle == [pc |-> "idle", op |-> "none", records |-> <<>>, snapshot |-> <<>>]

\* VectorStore(root) on a directory that holds no artifact
StoreEmpty ==
  /\ store_documents = <<>>
  /\ store_chunks = <<>>
  /\ index_file = AbsentFile
  /\ metadata_file = AbsentFile
  /\ up = TRUE
  /\ clock = 0
  /\ last = NoCall
  /\ threads = [t \in Threads |-> Idle]

(***************************************************************************)
(* The chunking pipeline on bounded texts.                                 *)
(***************************************************************************)
\* the lines a text is made of: headers of two levels, a header with an
\* empty title, a line that only looks like a header, body, blank lines
LineVocab ==
  { <<"#", " ", "a">>, <<"#", "#", " ", "b">>, <<"#", " ", " ">>,
    <<"#", "x">>, <<"x">>, <<" ">>, <<>> }

Texts == UNION {[1..n -> LineVocab] : n \in 0..MaxLines}

MaxChunkSizes == {SmallChunkSize, MidChunkSize, DEFAULT_MAX_CHUNK_SIZE}

InitCatalog ==
  /\ markdown \in {Join(t, <<NL>>) : t \in Texts}
  /\ max_chunk_size \in MaxChunkSizes
  /\ phase = "input"
  /\ catalog_items = <<>>
  /\ chunks = <<>>
  /\ chunk_metadata_list = <<>>
  /\ embedding = EmbedIdle
  /\ text_splitter = SplitterIdle
  /\ StoreEmpty

\* catalog_items, _ = extractor.extract(content)
Extract ==
  /\ phase = "input"
  /\ phase' = "extracted"
  /\ catalog_items' = extract(markdown).catalog_items
  /\ UNCHANGED <<markdown, max_chunk_size, chunks, chunk_metadata_list, callVars>>
  /\ UNCHANGED storeVars

\* catalog_items, chunks, chunk_metadata_list = chunker.split(text)
Split ==
  /\ phase = "input"
  /\ phase' = "split"
  /\ LET r == split(markdown, max_chunk_size)
     IN  /\ catalog_items' = r.catalog_items
         /\ chunks' = r.chunks
         /\ chunk_metadata_list' = r.chunk_metadata_list
  /\ UNCHANGED <<markdown, max_chunk_size, callVars>>
  /\ UNCHANGED storeVars

NextCatalog == Extract \/ Split

SpecCatalog == InitCatalog /\ [][NextCatalog]_vars

(***************************************************************************)
(* The extraction on texts of headers of three levels.                     *)
(***************************************************************************)
\* headers of the levels 1, 2 and 3, and a body line
HeaderVocab ==
  { <<"#", " ", "a">>, <<"#", "#", " ", "b">>, <<"#", "#", "#", " ", "c">>, <<"x">> }

HeaderTexts == UNION {[1..n -> HeaderVocab] : n \in 0..MaxLines}

InitTree ==
  /\ markdown \in {Join(t, <<NL>>) : t \in HeaderTexts}
  /\ max_chunk_size = DEFAULT_MAX_CHUNK_SIZE
  /\ phase = "input"
  /\ catalog_items = <<>>
  /\ chunks = <<>>
  /\ chunk_metadata_list = <<>>
  /\ embedding = EmbedIdle
  /\ text_splitter = SplitterIdle
  /\ StoreEmpty

NextTree == Extract \/ Split

SpecTree == InitTree /\ [][NextTree]_vars

(***************************************************************************)
(* The paragraph grouping on texts of a few paragraphs.                    *)
(***************************************************************************)
\* paragraphs of one, two and four characters, and one that strip() shortens
ParagraphVocab == { <<"x">>, <<"x", "x">>, <<"x", "x", "x", "x">>, <<" ", "x">> }

ParagraphTexts ==
  {Join(t, <<NL, NL>>) : t \in UNION {[1..n -> ParagraphVocab] : n \in 0..MaxParagraphs}}

InitGroup ==
  /\ markdown \in ParagraphTexts
  /\ max_chunk_size \in MaxChunkSizes
  /\ phase = "input"
  /\ catalog_items = <<>>
  /\ chunks = <<>>
  /\ chunk_metadata_list = <<>>
  /\ embedding = EmbedIdle
  /\ text_splitter = SplitterIdle
  /\ StoreEmpty

\* sub_chunks = self._split_large_section(section_content), which split calls
\* for a section longer than max_chunk_size
SplitLargeSection ==
  /\ phase = "input"
  /\ Len(markdown) > max_chunk_size
  /\ phase' = "large_section"
  /\ chunks' = split_large_section(markdown, max_chunk_size)
  /\ UNCHANGED <<markdown, max_chunk_size, catalog_items, chunk_metadata_list, callVars>>
  /\ UNCHANGED storeVars

\* chunks = self._fallback_split(markdown)
FallbackSplit ==
  /\ phase = "input"
  /\ phase' = "fallback"
  /\ chunks' = fallback_split(markdown, max_chunk_size)
  /\ UNCHANGED <<markdown, max_chunk_size, catalog_items, chunk_metadata_list, callVars>>
  /\ UNCHANGED storeVars

NextGroup == SplitLargeSection \/ FallbackSplit

SpecGroup == InitGroup /\ [][NextGroup]_vars

(***************************************************************************)
(* The store: one action per call, with the fault that hits its writes.    *)
(***************************************************************************)
\* add_document
AddDocument(filename, chunks_, vectors, chunk_metadata_list_, fault) ==
  /\ up
  /\ clock < MaxCalls
  /\ LET document_id == clock + 1
         created_at == Datetime(clock + 1)
         documents1 == DictSet(store_documents,
                               DocumentMetadata(document_id, filename, created_at,
                                                Len(chunks_)))
         chunks1 == store_chunks \o ZipRecords(document_id, chunks_, vectors, filename,
                                               created_at, chunk_metadata_list_)
         disk == persist(index_file, metadata_file, documents1, chunks1, fault)
     IN  /\ index_file' = disk.index_file
         /\ metadata_file' = disk.metadata_file
         /\ store_documents' = IF fault.kind = "crash" THEN <<>> ELSE documents1
         /\ store_chunks' = IF fault.kind = "crash" THEN <<>> ELSE chunks1
         /\ last' = [op |-> "add_document", outcome |-> Outcome(fault),
                     args |-> [document_id |-> document_id, n_chunks |-> Len(chunks_),
                               n_vectors |-> Len(vectors), fault |-> fault]]
  /\ up' = (fault.kind # "crash")
  /\ clock' = clock + 1
  /\ UNCHANGED <<catVars, threads>>

\* a clear that does not delete documents.json
Clear_KeepsDocumentsFile(fault) ==
  /\ up
  /\ store_chunks' = <<>>
  /\ store_documents' = <<>>
  /\ index_file' = IF fault.point = "index_unlink" THEN index_file ELSE AbsentFile
  /\ metadata_file' = metadata_file
  /\ up' = (fault.kind # "crash")
  /\ last' = [op |-> "clear", outcome |-> Outcome(fault),
              args |-> [fault |-> fault, docs_count |-> Len(store_documents),
                        chunks_count |-> Len(store_chunks)]]
  /\ UNCHANGED <<clock, catVars, threads>>

\* clear: an unlink is only called on a file that exists
Clear(fault) ==
  /\ up
  /\ fault.kind = "raise" /\ fault.point = "index_unlink" => index_file.state # "absent"
  /\ fault.kind = "raise" /\ fault.point = "metadata_unlink" => metadata_file.state # "absent"
  /\ store_chunks' = <<>>
  /\ store_documents' = <<>>
  /\ index_file' = IF fault.point = "index_unlink" THEN index_file ELSE AbsentFile
  /\ metadata_file' = IF fault.kind = "none" THEN AbsentFile ELSE metadata_file
  /\ up' = (fault.kind # "crash")
  /\ last' = [op |-> "clear", outcome |-> Outcome(fault),
              args |-> [fault |-> fault, docs_count |-> Len(store_documents),
                        chunks_count |-> Len(store_chunks)]]
  /\ UNCHANGED <<clock, catVars, threads>>

\* store.get_document(document_id)
get_document(documents, document_id) ==
  {documents[k] : k \in {j \in 1..Len(documents) : documents[j].document_id = document_id}}

\* update_parsed_document, 404: the document is unknown
UpdateNotFound(document_id) ==
  /\ up
  /\ get_document(store_documents, document_id) = {}
  /\ last' = [op |-> "update_parsed_document", outcome |-> "raised",
              args |-> [document_id |-> document_id, replaced |-> FALSE, fault |-> NoFault]]
  /\ UNCHANGED <<memVars, diskVars, up, clock, catVars, threads>>

\* update_parsed_document with payload.catalog = None: only the parsed text is rewritten
UpdateTextOnly(document_id) ==
  /\ up
  /\ get_document(store_documents, document_id) # {}
  /\ last' = [op |-> "update_parsed_document", outcome |-> "ok",
              args |-> [document_id |-> document_id, replaced |-> FALSE, fault |-> NoFault]]
  /\ UNCHANGED <<memVars, diskVars, up, clock, catVars, threads>>

\* update_parsed_document with a catalog: the chunks of the document are replaced
\* by the records built from chunker.split and embedder.embed, then _persist
ReplaceChunks(document_id, chunks_, vectors, chunk_metadata_list_, fault) ==
  /\ up
  /\ clock < MaxCalls
  /\ get_document(store_documents, document_id) # {}
  /\ chunks_ # <<>>
  /\ LET document == CHOOSE d \in get_document(store_documents, document_id) : TRUE
         kept == FilterChunks(store_chunks, document_id, FALSE)
         chunks1 == kept \o ZipRecords(document_id, chunks_, vectors, document.filename,
                                       Datetime(clock + 1), chunk_metadata_list_)
         disk == persist(index_file, metadata_file, store_documents, chunks1, fault)
     IN  /\ index_file' = disk.index_file
         /\ metadata_file' = disk.metadata_file
         /\ store_documents' = IF fault.kind = "crash" THEN <<>> ELSE store_documents
         /\ store_chunks' = IF fault.kind = "crash" THEN <<>> ELSE chunks1
  /\ last' = [op |-> "update_parsed_document", outcome |-> Outcome(fault),
              args |-> [document_id |-> document_id, replaced |-> TRUE, fault |-> fault,
                        chunks |-> chunks_]]
  /\ up' = (fault.kind # "crash")
  /\ clock' = clock + 1
  /\ UNCHANGED <<catVars, threads>>

\* a new process constructs VectorStore(root): __init__ runs _load
Open ==
  /\ ~up
  /\ LET loaded == load(index_file, metadata_file)
     IN  /\ up' = ~loaded.raised
         /\ store_chunks' = loaded.chunks
         /\ store_documents' = loaded.documents
         /\ last' = [op |-> "open",
                     outcome |-> IF loaded.raised THEN "raised" ELSE "ok",
                     args |-> <<>>]
  /\ UNCHANGED <<diskVars, clock, catVars, threads>>

(***************************************************************************)
(* The calls the store specification makes.                                *)
(***************************************************************************)
FileName == "sample.txt"

ContentA == <<"a">>

ContentB == <<"b">>

\* per-chunk metadata as the catalog splitter returns it
SplitterMeta(title, idx, sub) ==
  [catalog_path |-> title, catalog_title |-> title, catalog_level |-> 1,
   chunk_index |-> idx, is_subchunk |-> sub]

\* add_document(chunks, vectors, chunk_metadata_list): one chunk, two sections
\* of one chunk each as split returns them, an empty list, more chunks than
\* vectors
StoreInputs ==
  { [chunks |-> <<ContentA>>, vectors |-> <<<<2, 0>>>>, metas |-> <<>>],
    [chunks |-> <<ContentA, ContentB>>, vectors |-> <<<<2, 0>>, <<0, 2>>>>,
     metas |-> <<SplitterMeta(<<"S">>, 0, FALSE), SplitterMeta(<<"T">>, 0, FALSE)>>],
    [chunks |-> <<>>, vectors |-> <<>>, metas |-> <<>>],
    [chunks |-> <<ContentA, ContentB>>, vectors |-> <<<<2, 0>>>>, metas |-> <<>>] }

\* what the update flow passes on: split never returns an empty list, and
\* one vector per chunk
ReplaceInputs ==
  { [chunks |-> <<ContentB>>, vectors |-> <<<<0, 2>>>>,
     metas |-> <<SplitterMeta(<<"T">>, 0, FALSE)>>],
    [chunks |-> <<ContentB, ContentA>>, vectors |-> <<<<0, 2>>, <<3, 2>>>>,
     metas |-> <<SplitterMeta(<<"T">>, 0, TRUE), SplitterMeta(<<"T">>, 1, TRUE)>>] }

\* every id a document can have, and one that is never drawn
DocumentIds == 1..(MaxCalls + 1)

\* the ids calls are made with: the document added first, and an id no document has
CallDocumentIds == {1, MaxCalls + 1}

Init == CatalogIdle /\ StoreEmpty

Next ==
  \/ \E inp \in StoreInputs, fault \in Faults(PersistPoints) :
       AddDocument(FileName, inp.chunks, inp.vectors, inp.metas, fault)
  \/ \E fault \in Faults(ClearPoints) : Clear(fault)
  \/ \E document_id \in CallDocumentIds : UpdateNotFound(document_id)
  \/ \E document_id \in CallDocumentIds : UpdateTextOnly(document_id)
  \/ \E document_id \in CallDocumentIds, inp \in ReplaceInputs, fault \in Faults(PersistPoints) :
       ReplaceChunks(document_id, inp.chunks, inp.vectors, inp.metas, fault)
  \/ Open

Spec == Init /\ [][Next]_vars

(***************************************************************************)
(* Searching a store that add_document has filled.                         *)
(***************************************************************************)
\* the largest top_k of a call
MaxTopK == 2

\* np.stack raises ValueError on arrays of different shapes, np.dot on a
\* matrix whose rows are not as long as the query vector
ShapeError(candidates, query_vector) ==
  \E k \in 1..Len(candidates) :
    \/ Len(candidates[k].vector.data) # Len(candidates[1].vector.data)
    \/ Len(candidates[k].vector.data) # Len(query_vector)

\* VectorStore.search
Search(query_vector, top_k, threshold, document_id) ==
  /\ up
  /\ LET args == [query_vector |-> query_vector, top_k |-> top_k,
                  threshold |-> threshold, document_id |-> document_id]
     IN  IF ShapeError(chunks_to_search(store_chunks, document_id), query_vector)
         THEN last' = [op |-> "search", outcome |-> "raised", args |-> args,
                       result |-> <<>>]
         ELSE \E result \in search(store_chunks, query_vector, top_k, threshold,
                                   document_id) :
                last' = [op |-> "search", outcome |-> "ok", args |-> args,
                         result |-> result]
  /\ UNCHANGED <<memVars, diskVars, up, clock, catVars, threads>>

\* documents of one and of two chunks; vectors that point the way of the
\* query, at a right angle to it, the opposite way, and a zero vector
SearchInputs ==
  { [chunks |-> <<ContentA>>, vectors |-> <<<<2, 0>>>>, metas |-> <<>>],
    [chunks |-> <<ContentB, ContentA>>, vectors |-> <<<<0, 2>>, <<2, 2>>>>, metas |-> <<>>],
    [chunks |-> <<ContentB, ContentB>>, vectors |-> <<<<-2, 0>>, <<0, 0>>>>, metas |-> <<>>] }

QueryVectors == {<<1, 0>>, <<2, 1>>}

\* 0, 1/2, and 2, which no cosine reaches
Thresholds == {Threshold(0, 1), Threshold(1, 2), Threshold(2, 1)}

NextSearch ==
  \/ \E inp \in SearchInputs :
       AddDocument(FileName, inp.chunks, inp.vectors, inp.metas, NoFault)
  \/ \E query_vector \in QueryVectors, top_k \in 0..MaxTopK, threshold \in Thresholds,
        document_id \in CallDocumentIds \cup {NoDocumentId} :
       Search(query_vector, top_k, threshold, document_id)

SpecSearch == Init /\ [][NextSearch]_vars

(***************************************************************************)
(* Vectors of two lengths: what the embedding API returns, and the          *)
(* placeholder embed returns for a text it could not embed.                 *)
(***************************************************************************)
\* np.zeros(1024), scaled down to a length that is not the API's
Placeholder == <<0, 0, 0>>

DimInputs ==
  { [chunks |-> <<ContentA>>, vectors |-> <<<<2, 0>>>>, metas |-> <<>>],
    [chunks |-> <<ContentB>>, vectors |-> <<Placeholder>>, metas |-> <<>>] }

NextDim ==
  \/ \E inp \in DimInputs :
       AddDocument(FileName, inp.chunks, inp.vectors, inp.metas, NoFault)
  \/ \E inp \in DimInputs, document_id \in DocumentIds :
       ReplaceChunks(document_id, inp.chunks, inp.vectors, inp.metas, NoFault)
  \/ \E query_vector \in {<<2, 1>>, <<2, 1, 0>>},
        document_id \in DocumentIds \cup {NoDocumentId} :
       Search(query_vector, MaxTopK, Threshold(0, 1), document_id)

SpecDim == Init /\ [][NextDim]_vars

(***************************************************************************)
(* EmbeddingGenerator.embed against an API that fails as it likes.         *)
(***************************************************************************)
\* the longest list of texts of a call
MaxTexts == 4

\* batch_size = 3
batch_size == 3

\* max_retries = 5
max_retries == 5

\* np.zeros(1024): the length of a placeholder vector
PlaceholderDim == 1024

\* the length of the vectors the API returns: that of the configured default
\* model, and one that happens to be the placeholder's
ApiDims == {384, PlaceholderDim}

\* a row of the result: the text it stands for, its length, whether it is zeros
ApiVector(idx, dim) == [of |-> idx, dim |-> dim, zero |-> FALSE]

ZeroVector(idx) == [of |-> idx, dim |-> PlaceholderDim, zero |-> TRUE]

\* batch_indices = list(range(i, min(i + batch_size, len(texts_list))))
batch_indices(i, n) == [k \in 1..(Min(i + batch_size, n) - i) |-> i + k - 1]

\* np.vstack raises ValueError on rows of different lengths
VstackRaises(rows) == \E j, k \in 1..Len(rows) : rows[j].dim # rows[k].dim

\* texts_list = list(texts); all_vectors = []; failed_indices = []
EmbedStart(n, dim) ==
  [pc |-> "batch", n |-> n, dim |-> dim, i |-> 0, attempt |-> 0,
   all_vectors |-> <<>>, failed_indices |-> {},
   batch_requests |-> [b \in 0..((n - 1) \div batch_size) |-> 0],
   single_requests |-> [idx \in 0..(n - 1) |-> 0]]

\* one more request for the batch that starts at i
Requested(e) == [e EXCEPT !.batch_requests[e.i \div batch_size] = @ + 1]

\* all_vectors.append(rows); break; the next round of "for i in range(...)"
NextBatch(e, rows) ==
  [e EXCEPT !.all_vectors = @ \o rows,
            !.i = @ + batch_size,
            !.attempt = 0,
            !.pc = IF e.i + batch_size < e.n THEN "batch" ELSE "stack"]

InitEmbed ==
  /\ markdown = <<>>
  /\ max_chunk_size = DEFAULT_MAX_CHUNK_SIZE
  /\ phase = "input"
  /\ catalog_items = <<>>
  /\ chunks = <<>>
  /\ chunk_metadata_list = <<>>
  /\ \E n \in 1..MaxTexts, dim \in ApiDims : embedding = EmbedStart(n, dim)
  /\ text_splitter = SplitterIdle
  /\ StoreEmpty

EmbedFrame ==
  UNCHANGED <<markdown, max_chunk_size, phase, catalog_items, chunks,
              chunk_metadata_list, text_splitter, storeVars>>

\* batch_vectors = self._embed_via_api(batch, retry_count=attempt) returns
BatchSucceeds ==
  /\ embedding.pc = "batch"
  /\ LET e == Requested(embedding)
         batch == batch_indices(e.i, e.n)
     IN  embedding' = NextBatch(e, [k \in 1..Len(batch) |-> ApiVector(batch[k], e.dim)])
  /\ EmbedFrame

\* the request raises RuntimeError and the texts are not tried one by one:
\* another attempt after a sleep, or placeholders after the last attempt
BatchFails(status) ==
  /\ embedding.pc = "batch"
  /\ LET e == Requested(embedding)
         batch == batch_indices(e.i, e.n)
     IN  /\ ~(status = 500 /\ Len(batch) > 1 /\ e.attempt >= 2)
         /\ embedding' =
              IF e.attempt = max_retries - 1
              THEN NextBatch([e EXCEPT !.failed_indices =
                                         @ \cup {batch[k] : k \in 1..Len(batch)}],
                             [k \in 1..Len(batch) |-> ZeroVector(batch[k])])
              ELSE [e EXCEPT !.attempt = @ + 1]
  /\ EmbedFrame

\* the request raises RuntimeError with "500" in its message, on the third
\* attempt or later, for a batch of several texts: each text is requested
\* alone, once; answered says which of these requests return
BatchFailsTextsAlone(answered) ==
  /\ embedding.pc = "batch"
  /\ LET e == Requested(embedding)
         batch == batch_indices(e.i, e.n)
         individual_vectors ==
           [k \in 1..Len(batch) |->
              IF answered[k] THEN ApiVector(batch[k], e.dim) ELSE ZeroVector(batch[k])]
         e1 == [e EXCEPT !.single_requests =
                           [idx \in DOMAIN @ |->
                              IF \E k \in 1..Len(batch) : batch[k] = idx
                              THEN @[idx] + 1 ELSE @[idx]],
                         !.failed_indices =
                           @ \cup {batch[k] : k \in {j \in 1..Len(batch) : ~answered[j]}}]
     IN  /\ Len(batch) > 1
         /\ e.attempt >= 2
         /\ answered \in [1..Len(batch) -> BOOLEAN]
         /\ embedding' =
              IF VstackRaises(individual_vectors)
              THEN [e1 EXCEPT !.pc = "raised"]
              ELSE NextBatch(e1, individual_vectors)
  /\ EmbedFrame

\* return np.vstack(all_vectors)
Return ==
  /\ embedding.pc = "stack"
  /\ embedding' = [embedding EXCEPT !.pc = IF VstackRaises(embedding.all_vectors)
                                           THEN "raised" ELSE "returned"]
  /\ EmbedFrame

NextEmbed ==
  \/ BatchSucceeds
  \/ \E status \in {500, 429} : BatchFails(status)
  \/ \E answered \in UNION {[1..m -> BOOLEAN] : m \in 2..batch_size} :
       BatchFailsTextsAlone(answered)
  \/ Return

SpecEmbed == InitEmbed /\ [][NextEmbed]_vars

(***************************************************************************)
(* MarkdownTextSplitter.split on texts of a few tokens.                    *)
(***************************************************************************)
\* the most tokens of a text, and the largest chunk_size
MaxTokens == 5

MaxChunkTokens == 3

RECURSIVE WordsLoop(_, _, _)
WordsLoop(s, word, words) ==
  IF s = <<>> THEN IF word = <<>> THEN words ELSE Append(words, word)
  ELSE IF IsSpace(Head(s))
       THEN WordsLoop(Tail(s), <<>>, IF word = <<>> THEN words ELSE Append(words, word))
       ELSE WordsLoop(Tail(s), Append(word, Head(s)), words)

\* str.split(): the runs of characters that are not whitespace
Words(s) == WordsLoop(s, <<>>, <<>>)

\* text.replace("\r\n", "\n").strip()
Cleaned(text) == Strip(Join(SplitOn(text, <<CR, NL>>), <<NL>>))

\* the next chunk starts where the last one ended
NextStart_NoOverlap(end, chunk_overlap) == end

\* start = end - self.chunk_overlap; if start < 0: start = 0
NextStart(end, chunk_overlap) == Max(end - chunk_overlap, 0)

RECURSIVE SplitLoop(_, _, _, _, _)
\* while start < len(tokens): ...
SplitLoop(tokens, start, chunk_size, chunk_overlap, chunks_) ==
  IF ~(start < Len(tokens)) THEN chunks_
  ELSE LET end == Min(start + chunk_size, Len(tokens))
           chunk == Join(Slice(tokens, start, end), <<" ">>)
           chunks1 == Append(chunks_, chunk)
       IN  IF end = Len(tokens) THEN chunks1
           ELSE SplitLoop(tokens, NextStart(end, chunk_overlap), chunk_size,
                          chunk_overlap, chunks1)

\* MarkdownTextSplitter.split
text_split(text, chunk_size, chunk_overlap) ==
  LET cleaned == Cleaned(text)
  IN  IF cleaned = <<>> THEN <<>>
      ELSE SplitLoop(Words(cleaned), 0, chunk_size, chunk_overlap, <<>>)

\* what separates the tokens of a text, and what may stand around the text
Separators == {<<" ">>, <<NL>>, <<CR, NL>>, <<" ", " ">>}

SplitterTexts ==
  {pad \o Join(t, sep) \o pad :
     t \in UNION {[1..n -> {<<"a">>, <<"b", "b">>}] : n \in 0..MaxTokens},
     sep \in Separators, pad \in {<<>>, <<" ">>}}

\* MarkdownTextSplitter(chunk_size, chunk_overlap) with chunk_overlap < chunk_size
InitSplitter ==
  /\ markdown = <<>>
  /\ max_chunk_size = DEFAULT_MAX_CHUNK_SIZE
  /\ phase = "input"
  /\ catalog_items = <<>>
  /\ chunks = <<>>
  /\ chunk_metadata_list = <<>>
  /\ embedding = EmbedIdle
  /\ \E text \in SplitterTexts, chunk_size \in 1..MaxChunkTokens :
       \E chunk_overlap \in 0..(chunk_size - 1) :
         text_splitter = [pc |-> "input", text |-> text, chunk_size |-> chunk_size,
                          chunk_overlap |-> chunk_overlap, chunks |-> <<>>]
  /\ StoreEmpty

\* chunks = splitter.split(text)
TextSplit ==
  /\ text_splitter.pc = "input"
  /\ text_splitter' =
       [text_splitter EXCEPT
          !.pc = "returned",
          !.chunks = text_split(text_splitter.text, text_splitter.chunk_size,
                                text_splitter.chunk_overlap)]
  /\ UNCHANGED <<markdown, max_chunk_size, phase, catalog_items, chunks,
                 chunk_metadata_list, embedding, storeVars>>

NextSplitter == TextSplit

SpecSplitter == InitSplitter /\ [][NextSplitter]_vars

(***************************************************************************)
(* Full-text search over the catalog of a store that add_document filled.  *)
(***************************************************************************)
\* a full-text search that keeps the filtered list as the store's chunk list
SearchCatalogFulltext_KeepsCandidates(query, document_id) ==
  /\ up
  /\ last' = [op |-> "search_catalog_fulltext", outcome |-> "ok",
              args |-> [query |-> query, document_id |-> document_id],
              result |-> search_catalog_fulltext(store_chunks, query, document_id)]
  /\ store_chunks' = chunks_to_search(store_chunks, document_id)
  /\ UNCHANGED <<store_documents, diskVars, up, clock, catVars, threads>>

\* VectorStore.search_catalog_fulltext
SearchCatalogFulltext(query, document_id) ==
  /\ up
  /\ last' = [op |-> "search_catalog_fulltext", outcome |-> "ok",
              args |-> [query |-> query, document_id |-> document_id],
              result |-> search_catalog_fulltext(store_chunks, query, document_id)]
  /\ UNCHANGED <<memVars, diskVars, up, clock, catVars, threads>>

\* per-chunk metadata of a section whose path is longer than its title
CatalogMeta(path, title, level, idx, sub) ==
  [catalog_path |-> path, catalog_title |-> title, catalog_level |-> level,
   chunk_index |-> idx, is_subchunk |-> sub]

\* a section "S" of two sub-chunks, a section "T" under it, and a document
\* that was stored without catalog metadata
FulltextInputs ==
  { [chunks |-> <<<<"a", "s">>, <<"A", "S">>>>, vectors |-> <<<<2, 0>>, <<0, 2>>>>,
     metas |-> <<CatalogMeta(<<"S">>, <<"S">>, 1, 0, TRUE),
                 CatalogMeta(<<"S">>, <<"S">>, 1, 1, TRUE)>>],
    [chunks |-> <<<<"b">>>>, vectors |-> <<<<2, 2>>>>,
     metas |-> <<CatalogMeta(<<"S", " ", ">", " ", "T">>, <<"T">>, 2, 0, FALSE)>>],
    [chunks |-> <<<<"x", "a">>>>, vectors |-> <<<<2, 0>>>>, metas |-> <<>>] }

\* queries that match a path, a title, contents, everything and nothing
Queries == {<<"s">>, <<"T">>, <<"A">>, <<"b">>, <<>>, <<"z">>}

NextFulltext ==
  \/ \E inp \in FulltextInputs :
       AddDocument(FileName, inp.chunks, inp.vectors, inp.metas, NoFault)
  \/ \E query \in Queries, document_id \in CallDocumentIds \cup {NoDocumentId} :
       SearchCatalogFulltext(query, document_id)
  \/ \E document_id \in CallDocumentIds \cup {NoDocumentId} :
       Search(<<2, 1>>, MaxTopK, Threshold(0, 1), document_id)

SpecFulltext == Init /\ [][NextFulltext]_vars

(***************************************************************************)
(* Two threads on one VectorStore.  Nothing in the store takes a lock, so  *)
(* a call is a run of steps, one per statement that reads or writes the    *)
(* shared lists or a file, and the steps of two calls interleave.          *)
(***************************************************************************)
SetThread(t, pc, op, records, snapshot) ==
  threads' = [threads EXCEPT ![t] = [pc |-> pc, op |-> op, records |-> records,
                                     snapshot |-> snapshot]]

\* where a call goes after its records are built: the append loop, or _persist
AfterRecords(records) == IF records = <<>> THEN "snapshot" ELSE "append"

\* add_document up to self._documents[document_id] = metadata
BeginAdd(t, filename, chunks_, vectors, chunk_metadata_list_) ==
  /\ up
  /\ threads[t].pc = "idle"
  /\ clock < MaxCalls
  /\ LET document_id == clock + 1
         created_at == Datetime(clock + 1)
         records == ZipRecords(document_id, chunks_, vectors, filename, created_at,
                               chunk_metadata_list_)
     IN  /\ store_documents' = DictSet(store_documents,
                                       DocumentMetadata(document_id, filename, created_at,
                                                        Len(chunks_)))
         /\ SetThread(t, AfterRecords(records), "add_document", records, <<>>)
  /\ clock' = clock + 1
  /\ UNCHANGED <<store_chunks, diskVars, up, last, catVars>>

\* one turn of the loop: self._chunks.append(record)
AppendRecord(t) ==
  /\ threads[t].pc = "append"
  /\ store_chunks' = Append(store_chunks, Head(threads[t].records))
  /\ SetThread(t, AfterRecords(Tail(threads[t].records)), threads[t].op,
               Tail(threads[t].records), <<>>)
  /\ UNCHANGED <<store_documents, diskVars, up, clock, last, catVars>>

\* _persist: serializable_chunks = [... for chunk in self._chunks]
SnapshotChunks(t) ==
  /\ threads[t].pc = "snapshot"
  /\ SetThread(t, "write_index", threads[t].op, <<>>, store_chunks)
  /\ UNCHANGED <<memVars, diskVars, up, clock, last, catVars>>

\* _persist: pickle.dump(serializable_chunks, fh)
WriteIndex(t) ==
  /\ threads[t].pc = "write_index"
  /\ index_file' = IndexAfterPersist(index_file, threads[t].snapshot, NoFault)
  /\ SetThread(t, "write_metadata", threads[t].op, <<>>, <<>>)
  /\ UNCHANGED <<memVars, metadata_file, up, clock, last, catVars>>

\* _persist: json.dump([doc.model_dump() for doc in self._documents.values()], fh),
\* and the call returns
WriteMetadata(t) ==
  /\ threads[t].pc = "write_metadata"
  /\ metadata_file' = MetadataAfterPersist(metadata_file, store_documents, NoFault)
  /\ threads' = [threads EXCEPT ![t] = Idle]
  /\ last' = [op |-> threads[t].op, outcome |-> "ok", args |-> <<>>]
  /\ UNCHANGED <<memVars, index_file, up, clock, catVars>>

\* clear: self._chunks.clear()
BeginClear(t) ==
  /\ up
  /\ threads[t].pc = "idle"
  /\ store_chunks' = <<>>
  /\ SetThread(t, "clear_documents", "clear", <<>>, <<>>)
  /\ UNCHANGED <<store_documents, diskVars, up, clock, last, catVars>>

\* clear: self._documents.clear()
ClearDocuments(t) ==
  /\ threads[t].pc = "clear_documents"
  /\ store_documents' = <<>>
  /\ SetThread(t, "unlink_index", "clear", <<>>, <<>>)
  /\ UNCHANGED <<store_chunks, diskVars, up, clock, last, catVars>>

\* clear: if self.index_file.exists(): self.index_file.unlink()
UnlinkIndex(t) ==
  /\ threads[t].pc = "unlink_index"
  /\ index_file' = AbsentFile
  /\ SetThread(t, "unlink_metadata", "clear", <<>>, <<>>)
  /\ UNCHANGED <<memVars, metadata_file, up, clock, last, catVars>>

\* clear: if self.metadata_file.exists(): self.metadata_file.unlink(), and
\* the call returns
UnlinkMetadata(t) ==
  /\ threads[t].pc = "unlink_metadata"
  /\ metadata_file' = AbsentFile
  /\ threads' = [threads EXCEPT ![t] = Idle]
  /\ last' = [op |-> "clear", outcome |-> "ok", args |-> <<>>]
  /\ UNCHANGED <<memVars, index_file, up, clock, catVars>>

\* update_parsed_document with a catalog, up to
\* store._chunks = [c for c in store._chunks if c.document_id != document_id]
BeginReplace(t, document_id, chunks_, vectors, chunk_metadata_list_) ==
  /\ up
  /\ threads[t].pc = "idle"
  /\ clock < MaxCalls
  /\ get_document(store_documents, document_id) # {}
  /\ chunks_ # <<>>
  /\ LET document == CHOOSE d \in get_document(store_documents, document_id) : TRUE
         records == ZipRecords(document_id, chunks_, vectors, document.filename,
                               Datetime(clock + 1), chunk_metadata_list_)
     IN  SetThread(t, AfterRecords(records), "update_parsed_document", records, <<>>)
  /\ store_chunks' = FilterChunks(store_chunks, document_id, FALSE)
  /\ clock' = clock + 1
  /\ UNCHANGED <<store_documents, diskVars, up, last, catVars>>

\* a read by a thread that is in no call: list_documents() and the chunk list
\* that get_chunks_by_document, search and stats go through
Read(t) ==
  /\ up
  /\ threads[t].pc = "idle"
  /\ last' = [op |-> "read", outcome |-> "ok", args |-> <<>>,
              documents |-> list_documents(store_documents),
              chunks |-> store_chunks]
  /\ UNCHANGED <<memVars, diskVars, up, clock, threads, catVars>>

\* what the threads call the store with: documents of two chunks, replaced by
\* two chunks
ConcAddInput ==
  [chunks |-> <<ContentA, ContentB>>, vectors |-> <<<<2, 0>>, <<0, 2>>>>, metas |-> <<>>]

ConcReplaceInput ==
  [chunks |-> <<ContentB, ContentA>>, vectors |-> <<<<0, 2>>, <<2, 2>>>>, metas |-> <<>>]

NextConc ==
  \E t \in Threads :
    \/ BeginAdd(t, FileName, ConcAddInput.chunks, ConcAddInput.vectors, ConcAddInput.metas)
    \/ AppendRecord(t)
    \/ SnapshotChunks(t)
    \/ WriteIndex(t)
    \/ WriteMetadata(t)
    \/ BeginClear(t)
    \/ ClearDocuments(t)
    \/ UnlinkIndex(t)
    \/ UnlinkMetadata(t)
    \/ \E document_id \in CallDocumentIds :
         BeginReplace(t, document_id, ConcReplaceInput.chunks, ConcReplaceInput.vectors,
                      ConcReplaceInput.metas)
    \/ Read(t)

SpecConc == Init /\ [][NextConc]_vars

(***************************************************************************)
(* Properties of the chunking pipeline (checked under SpecCatalog).        *)
(***************************************************************************)
InputLines == SplitOn(markdown, <<NL>>)

\* the later headers that end node i: level <= the level of i
Closers(items, i) == {j \in (i + 1)..Len(items) : items[j].level <= items[i].level}

\* (line of the next later header of the same or a higher rank) - 1, or the last line
ExpectedEndLine(items, i) ==
  IF Closers(items, i) = {} THEN Len(InputLines) - 1
  ELSE items[CHOOSE j \in Closers(items, i) : \A k \in Closers(items, i) : j <= k].start_line - 1

\* C1: when extract returns, every node has an end_line, and it is the line
\* before the next later header whose level is <= the node's level, or the
\* last line of the text when there is no such header.
C1_EndLineAtNextHeader ==
  phase = "extracted" =>
    \A i \in 1..Len(catalog_items) :
      /\ catalog_items[i].end_line # None
      /\ catalog_items[i].end_line = ExpectedEndLine(catalog_items, i)

\* C9: split returns as many metadata entries as chunks, on the catalog path
\* and on the fallback path.
C9_ChunksAndMetadataSameLength ==
  phase = "split" => Len(chunks) = Len(chunk_metadata_list)

\* a section larger than max_chunk_size was split into several sub-chunks
C9_Witness ==
  /\ phase = "split"
  /\ Len(chunks) >= 2
  /\ \E k \in 1..Len(chunk_metadata_list) :
       LET m == chunk_metadata_list[k]
       IN  "is_subchunk" \in DOMAIN m /\ m.is_subchunk /\ m.chunk_index = 1

NoHeaderLine ==
  \A k \in 1..Len(InputLines) : ~header_pattern_match(InputLines[k])

\* C10: for a text without a header line extract returns no node, and split
\* returns the paragraph groups of the whole text: at least one chunk when
\* the text is non-empty, each with the uncategorized marker as catalog_path
\* and catalog_title and with catalog_level 0.
C10_NoHeaderFallsBack ==
  NoHeaderLine =>
    /\ phase = "extracted" => catalog_items = <<>>
    /\ phase = "split" =>
         /\ catalog_items = <<>>
         /\ markdown # <<>> => Len(chunks) >= 1
         /\ Paragraphs(Join(chunks, <<NL, NL>>)) = Paragraphs(markdown)
         /\ \A k \in 1..Len(chunks) :
              /\ k \in DOMAIN chunk_metadata_list
              /\ chunk_metadata_list[k].catalog_path = UNCATEGORIZED
              /\ chunk_metadata_list[k].catalog_title = UNCATEGORIZED
              /\ chunk_metadata_list[k].catalog_level = 0

\* a text without headers that the fallback split into two groups
C10_Witness ==
  /\ phase = "split"
  /\ NoHeaderLine
  /\ markdown # <<>>
  /\ Len(chunks) = 2

(***************************************************************************)
(* Properties of the store and its two artifacts.                          *)
(***************************************************************************)
\* the last call was a mutating call that returned to its caller
MutatingCallReturned ==
  /\ up
  /\ last.outcome = "ok"
  /\ \/ last.op \in {"add_document", "clear"}
     \/ last.op = "update_parsed_document" /\ last.args.replaced

\* a fresh VectorStore on the directory, compared with the store that wrote it
FreshStoreEqualsMemory ==
  LET loaded == load(index_file, metadata_file)
  IN  /\ ~loaded.raised
      /\ list_documents(loaded.documents) = list_documents(store_documents)
      /\ \A document_id \in DocumentIds :
           get_chunks_by_document(loaded.chunks, document_id)
             = get_chunks_by_document(store_chunks, document_id)

\* C4: after a mutating call (add_document, the replacement of a document's
\* chunks, clear) has returned, a fresh VectorStore constructed on the same
\* directory lists the same document records in the same order and, for every
\* document id, the same chunks in the same order with the same content,
\* vector and metadata as the memory of the store that wrote them.
C4_PersistenceRoundTrip == MutatingCallReturned => FreshStoreEqualsMemory

\* a replacement has returned in a store of two documents, one of them with
\* splitter metadata, and both artifacts hold data
C4_Witness ==
  /\ MutatingCallReturned
  /\ last.op = "update_parsed_document"
  /\ Len(store_documents) = 2
  /\ Len(store_chunks) >= 3
  /\ \E k \in 1..Len(store_chunks) : store_chunks[k].document_id # last.args.document_id
  /\ index_file.state = "written"
  /\ metadata_file.state = "written"

\* C5: an add_document call with a chunk list and a vector list of different
\* lengths, or with an empty chunk list, ends with an error for its caller and
\* leaves the documents and chunks in memory and both files as they were.
C5_ContractViolationRejected ==
  [][(/\ clock' = clock + 1
      /\ last'.op = "add_document"
      /\ \/ last'.args.n_chunks # last'.args.n_vectors
         \/ last'.args.n_chunks = 0)
     => (/\ last'.outcome = "raised"
         /\ UNCHANGED <<memVars, diskVars>>)]_vars

\* what a reader of the directory finds in each artifact
DiskDocuments ==
  IF metadata_file.state = "written" THEN LoadDocuments(metadata_file.data) ELSE <<>>

DiskChunks ==
  IF index_file.state = "written" THEN LoadChunks(index_file.data) ELSE <<>>

DocumentIdsOf(records) == {records[k].document_id : k \in 1..Len(records)}

\* C6: when the write of the artifacts fails during add_document, the call
\* fails to its caller, and the new document record and its chunks are in
\* memory only if they are on disk too.
C6_FailedPersistLeavesNoDivergence ==
  (last.op = "add_document" /\ last.args.fault.kind = "raise")
    => /\ last.outcome = "raised"
       /\ last.args.document_id \in DocumentIdsOf(store_documents)
            => last.args.document_id \in DocumentIdsOf(DiskDocuments)
       /\ \A k \in 1..Len(store_chunks) :
            store_chunks[k].document_id = last.args.document_id
              => \E j \in 1..Len(DiskChunks) : DiskChunks[j] = store_chunks[k]

\* C7: whenever both artifacts can be read, every chunk of the chunk artifact
\* belongs to a document of the document artifact, and every document recorded
\* with chunks has chunks in the chunk artifact; this includes the directory a
\* crash inside a mutating call leaves behind.
C7_ArtifactsAgreeAtRest ==
  (index_file.state # "corrupt" /\ metadata_file.state # "corrupt")
    => /\ DocumentIdsOf(DiskChunks) \subseteq DocumentIdsOf(DiskDocuments)
       /\ \A k \in 1..Len(DiskDocuments) :
            DiskDocuments[k].num_chunks > 0
              => DiskDocuments[k].document_id \in DocumentIdsOf(DiskChunks)

(***************************************************************************)
(* Properties of search.                                                   *)
(***************************************************************************)
\* the candidates of the search that was made last, and their scores
LastCandidates == chunks_to_search(store_chunks, last.args.document_id)

LastScores == Scores(LastCandidates, last.args.query_vector)

\* the candidates whose score is not below the threshold
Passing == {k \in 1..Len(LastCandidates) : ~ScoreLess(LastScores[k], last.args.threshold)}

\* C2: the list search returns has at most top_k elements, its scores do not
\* increase from one element to the next, and no score is below the
\* threshold; with a threshold above every candidate's score it is empty.
C2_SearchBoundedSortedAboveThreshold ==
  last.op = "search" =>
    LET result == last.result
    IN  /\ Len(result) <= last.args.top_k
        /\ \A k \in 1..(Len(result) - 1) : ~ScoreLess(result[k].score, result[k + 1].score)
        /\ \A k \in 1..Len(result) : ~ScoreLess(result[k].score, last.args.threshold)
        /\ Passing = {} => result = <<>>

\* a search over four or more candidates returned two results of different
\* scores and left out a candidate below the threshold and one above it
C2_Witness ==
  /\ last.op = "search"
  /\ Len(LastCandidates) >= 4
  /\ Len(last.result) = 2
  /\ ScoreLess(last.result[2].score, last.result[1].score)
  /\ Cardinality(Passing) > 2
  /\ Cardinality(Passing) < Len(LastCandidates)

\* the results are candidates, each with its own score
ResultsAreCandidates ==
  \E pick \in [1..Len(last.result) -> 1..Len(LastCandidates)] :
    /\ \A i, j \in 1..Len(last.result) : i # j => pick[i] # pick[j]
    /\ \A i \in 1..Len(last.result) :
         last.result[i] = ChunkResult(LastCandidates[pick[i]], LastScores[pick[i]])

\* the number of candidates that score higher than s
Above(s) == Cardinality({k \in 1..Len(LastCandidates) : ScoreLess(s, LastScores[k])})

\* C3: search returns exactly min(top_k, m) results, m being the number of
\* candidates at or above the threshold, which is the number a scan of the
\* complete ranking would return, so the 2 * top_k window loses nothing; the
\* results are the highest-scoring candidates, and the first one has the
\* maximum score.
C3_SearchReturnsTopCandidates ==
  last.op = "search" =>
    LET result == last.result
        n == Min(last.args.top_k, Cardinality(Passing))
    IN  /\ Len(result) = n
        /\ ResultsAreCandidates
        /\ \A i \in 1..Len(result) : Above(result[i].score) < i
        /\ n >= 1 => Above(result[1].score) = 0

\* more candidates pass the threshold than the 2 * top_k window holds, some
\* do not pass, and top_k results came back
C3_Witness ==
  /\ last.op = "search"
  /\ last.args.top_k >= 1
  /\ Cardinality(Passing) > 2 * last.args.top_k
  /\ Cardinality(Passing) < Len(LastCandidates)
  /\ Len(last.result) = last.args.top_k

(***************************************************************************)
(* Properties of concurrent calls.                                         *)
(***************************************************************************)
\* C8: a mutating call is atomic for every other call.  A read never sees a
\* document record without all of its chunks (a record whose chunks are still
\* being appended, or whose old chunks are removed and whose new ones are not
\* there yet), and when no call is running the artifacts hold every document
\* and every chunk that is in memory.
C8_MutationsAtomic ==
  /\ last.op = "read" =>
       \A k \in 1..Len(last.documents) :
         Len(get_chunks_by_document(last.chunks, last.documents[k].document_id))
           = last.documents[k].num_chunks
  /\ (up /\ \A t \in Threads : threads[t].pc = "idle") =>
       /\ \A k \in 1..Len(store_documents) :
            \E j \in 1..Len(DiskDocuments) : DiskDocuments[j] = store_documents[k]
       /\ \A k \in 1..Len(store_chunks) :
            \E j \in 1..Len(DiskChunks) : DiskChunks[j] = store_chunks[k]

(***************************************************************************)
(* Properties of the paragraph grouping.                                   *)
(***************************************************************************)
\* C11: every group the greedy grouping produces out of two or more
\* paragraphs, joined by the two-character separator, is at most
\* max_chunk_size characters long; only a group of one paragraph may be
\* longer.
C11_GroupWithinMaxChunkSize ==
  phase \in {"large_section", "fallback"} =>
    \A k \in 1..Len(chunks) :
      Len(Paragraphs(chunks[k])) >= 2 => Len(chunks[k]) <= max_chunk_size

(***************************************************************************)
(* Properties of the full-text search.                                     *)
(***************************************************************************)
\* the candidates of the full-text search that was made last
FulltextCandidates == chunks_to_search(store_chunks, last.args.document_id)

\* the candidates stored under a catalog path, in stored order
Members(path) ==
  LET RECURSIVE Under(_)
      Under(cs) == IF cs = <<>> THEN <<>>
                   ELSE IF GroupPath(Head(cs)) = path
                        THEN <<Head(cs)>> \o Under(Tail(cs))
                        ELSE Under(Tail(cs))
  IN  Under(FulltextCandidates)

\* the position of the first candidate of a group
FirstPosition(path) ==
  CHOOSE k \in 1..Len(FulltextCandidates) :
    /\ GroupPath(FulltextCandidates[k]) = path
    /\ \A j \in 1..(k - 1) : GroupPath(FulltextCandidates[j]) # path

\* the query is, whatever the case of the letters, part of the path of the
\* group, of its title, or of the content of one of its chunks
GroupHoldsQuery(path) ==
  LET q == Lower(last.args.query)
      members == Members(path)
  IN  \/ Contains(Lower(path), q)
      \/ Contains(Lower(MetaGet(members[1].metadata, "catalog_title", <<>>)), q)
      \/ \E k \in 1..Len(members) : Contains(Lower(members[k].content), q)

MatchingPaths ==
  {p \in {GroupPath(FulltextCandidates[k]) : k \in 1..Len(FulltextCandidates)} :
     GroupHoldsQuery(p)}

\* C12: the result of search_catalog_fulltext holds exactly one entry for each
\* group of candidates whose path, title or some chunk content contains the
\* query without regard to case, no entry for any other group, and the
\* entries come in the order of the groups' first chunks.
C12_FulltextOneEntryPerMatchingGroup ==
  last.op = "search_catalog_fulltext" =>
    LET result == last.result
    IN  /\ {result[k].catalog_path : k \in 1..Len(result)} = MatchingPaths
        /\ Len(result) = Cardinality(MatchingPaths)
        /\ \A i, j \in 1..Len(result) :
             i < j => FirstPosition(result[i].catalog_path)
                        < FirstPosition(result[j].catalog_path)

\* three groups are searched; the second one matches by content only, the
\* first one does not match, the third one matches
C12_Witness ==
  /\ last.op = "search_catalog_fulltext"
  /\ Len(last.result) = 2
  /\ Cardinality({GroupPath(FulltextCandidates[k]) : k \in 1..Len(FulltextCandidates)}) = 3
  /\ ~Contains(Lower(last.result[1].catalog_path), Lower(last.args.query))
  /\ FirstPosition(last.result[1].catalog_path) > 1

\* C13: every grouped result lists the contents of all candidates stored under
\* its catalog path, in stored order, its content is those contents joined by
\* a blank line, and a group is in the result once, also when its title and
\* several of its chunks hold the query.
C13_FulltextGroupHoldsAllItsChunks ==
  last.op = "search_catalog_fulltext" =>
    LET result == last.result
    IN  /\ \A k \in 1..Len(result) :
             /\ result[k].chunks = Contents(Members(result[k].catalog_path))
             /\ result[k].content = Join(result[k].chunks, <<NL, NL>>)
        /\ \A i, j \in 1..Len(result) :
             i # j => result[i].catalog_path # result[j].catalog_path
        /\ \A p \in MatchingPaths :
             Contains(Lower(MetaGet(Members(p)[1].metadata, "catalog_title", <<>>)),
                      Lower(last.args.query))
               => \E k \in 1..Len(result) : result[k].catalog_path = p

\* a query that is in the title of a section and in the content of two of its
\* chunks, on a store where the section has chunks of two documents
C13_Witness ==
  /\ last.op = "search_catalog_fulltext"
  /\ last.args.query # <<>>
  /\ \E k \in 1..Len(last.result) :
       /\ Contains(Lower(last.result[k].catalog_title), Lower(last.args.query))
       /\ Len(last.result[k].chunks) >= 4
       /\ Cardinality({j \in 1..Len(last.result[k].chunks) :
                         Contains(Lower(last.result[k].chunks[j]),
                                  Lower(last.args.query))}) >= 2

(***************************************************************************)
(* Properties of both searches.                                            *)
(***************************************************************************)
\* the chunks of the document a search was filtered by
FilteredChunks == get_chunks_by_document(store_chunks, last.args.document_id)

\* C14: with a document_id filter, every result of search is a chunk of that
\* document, every result of search_catalog_fulltext carries that document id
\* and the contents of that document's chunks only, and a filter that no
\* chunk matches gives an empty list and no error.
C14_FilterRestrictsToDocument ==
  (last.op \in {"search", "search_catalog_fulltext"}
     /\ last.args.document_id # NoDocumentId) =>
    /\ last.outcome = "ok"
    /\ FilteredChunks = <<>> => last.result = <<>>
    /\ last.op = "search" =>
         \A k \in 1..Len(last.result) :
           \E j \in 1..Len(FilteredChunks) :
             last.result[k] = ChunkResult(FilteredChunks[j],
                                          Score(FilteredChunks[j].vector,
                                                last.args.query_vector))
    /\ last.op = "search_catalog_fulltext" =>
         \A k \in 1..Len(last.result) :
           /\ last.result[k].document_id = last.args.document_id
           /\ last.result[k].chunks =
                Contents(SelectSeq(FilteredChunks,
                                   LAMBDA c : GroupPath(c) = last.result[k].catalog_path))

\* a filtered full-text search found a section of which another document
\* holds chunks too
C14_Witness ==
  /\ last.op = "search_catalog_fulltext"
  /\ last.args.document_id # NoDocumentId
  /\ last.result # <<>>
  /\ \E j \in 1..Len(store_chunks) :
       /\ store_chunks[j].document_id # last.args.document_id
       /\ GroupPath(store_chunks[j]) = last.result[1].catalog_path

\* C18: search and search_catalog_fulltext leave the documents and chunks in
\* memory and both files as they are, and the result is one that the same call
\* on the store after the call gives.
C18_SearchesAreReadOnly ==
  [][last'.op \in {"search", "search_catalog_fulltext"} =>
       /\ UNCHANGED <<memVars, diskVars>>
       /\ last'.op = "search" =>
            last'.result \in search(store_chunks', last'.args.query_vector,
                                    last'.args.top_k, last'.args.threshold,
                                    last'.args.document_id)
       /\ last'.op = "search_catalog_fulltext" =>
            last'.result = search_catalog_fulltext(store_chunks', last'.args.query,
                                                   last'.args.document_id)]_vars

\* a filtered full-text search returned a result on a store that holds the
\* chunks of other documents too, with both files written
C18_Witness ==
  /\ last.op = "search_catalog_fulltext"
  /\ last.args.document_id # NoDocumentId
  /\ last.result # <<>>
  /\ Len(store_documents) >= 2
  /\ Len(FilteredChunks) < Len(store_chunks)
  /\ index_file.state = "written"
  /\ metadata_file.state = "written"

(***************************************************************************)
(* The order of equal scores.                                              *)
(***************************************************************************)
\* the places in the result of the candidate at position k of the scan
PlacesOf(k) ==
  {i \in 1..Len(last.result) :
     last.result[i] = ChunkResult(LastCandidates[k], LastScores[k])}

\* C15: of two candidates with equal score, the one stored earlier comes
\* before the other in the result of search, and when only one of them is
\* returned it is the one stored earlier.
C15_EqualScoresKeepScanOrder ==
  last.op = "search" =>
    \A a, b \in 1..Len(LastCandidates) :
      (/\ a < b
       /\ ~ScoreLess(LastScores[a], LastScores[b])
       /\ ~ScoreLess(LastScores[b], LastScores[a])
       /\ PlacesOf(b) # {})
        => \E i \in PlacesOf(a) : \A j \in PlacesOf(b) : i < j

(***************************************************************************)
(* Properties of clear and of the construction of a store.                 *)
(***************************************************************************)
\* the store after a clear: nothing in memory, no file, and nothing for a
\* fresh store to load
ClearedStore ==
  /\ stats(store_documents, store_chunks) = <<0, 0>>
  /\ index_file = AbsentFile
  /\ metadata_file = AbsentFile
  /\ load(index_file, metadata_file)
       = [raised |-> FALSE, chunks |-> <<>>, documents |-> <<>>]

\* C16: after clear() has returned, stats() is (0, 0), both files are absent,
\* a fresh store on the directory is empty, and a second clear() can be made
\* and leaves that state as it is.
C16_ClearEmptiesAndIsIdempotent ==
  (last.op = "clear" /\ last.outcome = "ok") =>
    /\ ClearedStore
    /\ ENABLED (Clear(NoFault) /\ ClearedStore' /\ UNCHANGED <<memVars, diskVars>>)

\* a clear has returned on a store that held two documents and three chunks
\* or more
C16_Witness ==
  /\ last.op = "clear"
  /\ last.outcome = "ok"
  /\ last.args.docs_count >= 2
  /\ last.args.chunks_count >= 3
\* C17: a store constructed on a directory without files starts empty, and
\* the construction on a directory with a file that cannot be parsed fails
\* with an error and yields no store, neither an empty one nor one with a
\* part of the data.
C17_CorruptArtifactFailsConstruction ==
  last.op = "open" =>
    /\ (index_file = AbsentFile /\ metadata_file = AbsentFile) =>
         /\ last.outcome = "ok"
         /\ up
         /\ stats(store_documents, store_chunks) = <<0, 0>>
    /\ (index_file = CorruptFile \/ metadata_file = CorruptFile) =>
         /\ last.outcome = "raised"
         /\ ~up
         /\ stats(store_documents, store_chunks) = <<0, 0>>

\* a construction failed on a directory whose index.pkl can be read and whose
\* documents.json is cut short
C17_Witness ==
  /\ last.op = "open"
  /\ last.outcome = "raised"
  /\ index_file.state = "written"
  /\ index_file.data # <<>>
  /\ metadata_file = CorruptFile

ChunkIdsUniqueAndOwned ==
  /\ \A j, k \in 1..Len(store_chunks) :
       store_chunks[j].chunk_id = store_chunks[k].chunk_id => j = k
  /\ \A k \in 1..Len(store_chunks) :
       /\ \E idx \in 0..(Len(store_chunks) - 1) :
            store_chunks[k].chunk_id = ChunkId(store_chunks[k].document_id, idx)
       /\ Cardinality({d \in 1..Len(store_documents) :
            store_documents[d].document_id = store_chunks[k].document_id}) = 1

\* C20: add_document, the replacement of a document's chunks and clear each
\* keep the chunk ids unique and of the form 'document_id:idx', and keep every
\* chunk with exactly one document record: a running store in which this
\* holds passes to one in which it holds.
C20_ChunkIdsUniqueAndOwned ==
  [][(up /\ up' /\ ChunkIdsUniqueAndOwned) => ChunkIdsUniqueAndOwned']_vars

\* the chunks of one document of two were replaced by two new ones
C20_Witness ==
  /\ last.op = "update_parsed_document"
  /\ last.outcome = "ok"
  /\ last.args.replaced
  /\ Len(store_documents) >= 2
  /\ \E k \in 1..Len(store_chunks) :
       store_chunks[k].chunk_id = ChunkId(last.args.document_id, 1)
  /\ \E k \in 1..Len(store_chunks) :
       store_chunks[k].document_id # last.args.document_id
  /\ ChunkIdsUniqueAndOwned

\* C21: every chunk that CatalogBasedSplitter.split returns has non-empty
\* content, for every text, the empty text and the whitespace-only text
\* included.
C21_ChunksAreNonEmpty ==
  phase = "split" => \A k \in 1..Len(chunks) : chunks[k] # <<>>

\* the earlier headers of a strictly smaller level than node i
EarlierLower(items, i) == {j \in 1..(i - 1) : items[j].level < items[i].level}

\* the nodes on the parent chain of node i
RECURSIVE Ancestors(_, _)
Ancestors(items, i) ==
  IF items[i].parent = NoParent THEN {}
  ELSE {items[i].parent} \cup Ancestors(items, items[i].parent)

\* the members of a set of positions in ascending order
RECURSIVE Ascending(_)
Ascending(S) ==
  IF S = {} THEN <<>>
  ELSE LET m == CHOOSE x \in S : \A y \in S : x <= y
       IN  <<m>> \o Ascending(S \ {m})

\* C22: after extract, for every text, the parent of each node is the most
\* recent earlier header of a strictly smaller level (none when there is no
\* such header), the level of a node is strictly greater than the level of
\* each of its ancestors, the children list of a node holds exactly the nodes
\* whose parent it is, in document order, and start_line <= end_line for
\* every node whose end_line is set.
C22_CatalogTreeInvariants ==
  phase = "extracted" =>
    \A i \in 1..Len(catalog_items) :
      LET item == catalog_items[i]
          lower == EarlierLower(catalog_items, i)
      IN  /\ item.parent = IF lower = {} THEN NoParent
                           ELSE CHOOSE j \in lower : \A k \in lower : k <= j
          /\ \A a \in Ancestors(catalog_items, i) : catalog_items[a].level < item.level
          /\ item.children
               = Ascending({j \in 1..Len(catalog_items) : catalog_items[j].parent = i})
          /\ item.end_line # None => item.start_line <= item.end_line

\* a header with two children, one of which has a child of its own
C22_Witness ==
  /\ phase = "extracted"
  /\ \E i \in 1..Len(catalog_items) :
       /\ Len(catalog_items[i].children) = 2
       /\ \E j \in 1..Len(catalog_items) :
            Cardinality(Ancestors(catalog_items, j)) = 2 /\ i \in Ancestors(catalog_items, j)

\* the lengths of the vectors the store holds
Dimensions == {Len(store_chunks[k].vector.data) : k \in 1..Len(store_chunks)}

\* C23: after add_document and chunk-replacement calls all vectors of the
\* store have one dimensionality, and a search with a query vector of that
\* dimensionality returns a result list and does not fail.
C23_OneDimensionality ==
  /\ Cardinality(Dimensions) <= 1
  /\ (last.op = "search" /\ Len(last.args.query_vector) \in Dimensions) =>
       last.outcome = "ok"

\* the trimmed text of the lines start_line..end_line of node i in the text
\* split was called on
OwnSection(items, i) ==
  Strip(Join(Slice(InputLines, items[i].start_line, items[i].end_line + 1), <<NL>>))

\* C24: the section that split chunks for a node is the trimmed text of the
\* node's own lines start_line..end_line, so a section emitted as one chunk
\* is that text and begins with the header line of its node, also for the
\* second and later headers.
C24_SectionIsOwnLineRange ==
  phase = "split" =>
    \A k \in 1..Len(chunks) :
      LET m == chunk_metadata_list[k]
      IN  ("is_subchunk" \in DOMAIN m /\ ~m.is_subchunk) =>
            \E i \in 1..Len(catalog_items) :
              /\ catalog_items[i].end_line # None
              /\ get_full_path(catalog_items, i) = m.catalog_path
              /\ chunks[k] = OwnSection(catalog_items, i)

\* C25: a chunk replacement for document d that returns leaves as the
\* chunks of d exactly the replacement chunks, in their order, with the ids
\* d:0 .. d:n-1; it leaves the chunks of every other document unchanged and
\* in their order; it adds and removes no document record; and what it
\* leaves in memory is what a fresh store loads.
C25_ReplacementFrame ==
  [][(/\ clock' = clock + 1
      /\ last'.op = "update_parsed_document"
      /\ last'.outcome = "ok"
      /\ last'.args.replaced)
     => LET d == last'.args.document_id
            new == FilterChunks(store_chunks', d, TRUE)
        IN  /\ Len(new) = Len(last'.args.chunks)
            /\ \A k \in 1..Len(new) :
                 /\ new[k].content = last'.args.chunks[k]
                 /\ new[k].chunk_id = <<d, k - 1>>
            /\ FilterChunks(store_chunks', d, FALSE) = FilterChunks(store_chunks, d, FALSE)
            /\ DocumentIdsOf(store_documents') = DocumentIdsOf(store_documents)
            /\ Len(store_documents') = Len(store_documents)
            /\ FreshStoreEqualsMemory']_vars

\* two chunks replaced the chunks of one document in a store that holds
\* chunks of another
C25_Witness ==
  /\ last.op = "update_parsed_document"
  /\ last.outcome = "ok"
  /\ last.args.replaced
  /\ Len(last.args.chunks) = 2
  /\ FilterChunks(store_chunks, last.args.document_id, FALSE) # <<>>
  /\ Len(FilterChunks(store_chunks, last.args.document_id, TRUE)) = 2
  /\ FreshStoreEqualsMemory

\* C26: for every non-empty list of texts and every pattern of API failures
\* embed sends each batch at most 5 times as a batch and each text at most
\* once alone, and it returns one vector per text, in the order of the
\* texts, a zero vector for each text that could not be embedded.
C26_EmbedReturnsOneVectorPerText ==
  embedding.pc # "idle" =>
    /\ \A b \in DOMAIN embedding.batch_requests :
         embedding.batch_requests[b] <= max_retries
    /\ \A idx \in DOMAIN embedding.single_requests :
         embedding.single_requests[idx] <= 1
    /\ embedding.pc # "raised"
    /\ embedding.pc = "returned" =>
         /\ Len(embedding.all_vectors) = embedding.n
         /\ \A k \in 1..embedding.n :
              /\ embedding.all_vectors[k].of = k - 1
              /\ embedding.all_vectors[k].zero <=> (k - 1) \in embedding.failed_indices

\* the tokens of the chunks one after the other, each chunk after the first
\* without the chunk_overlap tokens it repeats
RECURSIVE Uncovered(_, _, _)
Uncovered(chunks_, k, chunk_overlap) ==
  IF k > Len(chunks_) THEN <<>>
  ELSE Drop(Words(chunks_[k]), IF k = 1 THEN 0 ELSE chunk_overlap)
         \o Uncovered(chunks_, k + 1, chunk_overlap)

\* C27: with chunk_size >= 1 and 0 <= chunk_overlap < chunk_size, split
\* returns, every chunk has at most chunk_size tokens, every chunk after the
\* first begins with the last chunk_overlap tokens of the chunk before it and
\* goes on where that chunk ended, and the chunks hold every token of the
\* text in order.
C27_ChunksOverlapAndCoverTheText ==
  text_splitter.pc = "returned" =>
    LET t == text_splitter
        tokens == Words(t.text)
    IN  /\ \A k \in 1..Len(t.chunks) :
             /\ Len(Words(t.chunks[k])) \in 1..t.chunk_size
             /\ k > 1 =>
                  LET previous == Words(t.chunks[k - 1])
                  IN  /\ Len(Words(t.chunks[k])) > t.chunk_overlap
                      /\ Slice(Words(t.chunks[k]), 0, t.chunk_overlap)
                           = Drop(previous, Len(previous) - t.chunk_overlap)
        /\ Uncovered(t.chunks, 1, t.chunk_overlap) = tokens

\* a text of five tokens split into chunks of three with an overlap of two
C27_Witness ==
  /\ text_splitter.pc = "returned"
  /\ text_splitter.chunk_size = 3
  /\ text_splitter.chunk_overlap = 2
  /\ Len(Words(text_splitter.text)) = 5
  /\ Len(text_splitter.chunks) = 3

\* the lines of the chunks, trimmed
ChunkLines ==
  UNION {{Strip(l) : l \in {SplitOn(chunks[k], <<NL>>)[j] :
                              j \in 1..Len(SplitOn(chunks[k], <<NL>>))}} :
         k \in 1..Len(chunks)}

\* C28: for a text whose first line is a header, every non-blank line of the
\* text is a line of at least one chunk that split returns.
C28_NoLineLost ==
  (phase = "split" /\ header_pattern_match(InputLines[1])) =>
    \A n \in 1..Len(InputLines) :
      Strip(InputLines[n]) # <<>> => Strip(InputLines[n]) \in ChunkLines

\* every document record counts the chunks the store holds for it
NumChunksAgree ==
  \A k \in 1..Len(store_documents) :
    store_documents[k].num_chunks
      = Len(get_chunks_by_document(store_chunks, store_documents[k].document_id))

\* C29: add_document, the replacement of a document's chunks and clear keep
\* every document record's num_chunks equal to the number of chunks of that
\* document in the store.
C29_NumChunksCountsTheChunks ==
  [][(up /\ up' /\ NumChunksAgree) => NumChunksAgree']_vars

\* C30: every grouped result of search_catalog_fulltext holds only chunks of
\* the document its document_id names, also without a document_id filter
\* when chunks of several documents have the same catalog_path or none: its
\* chunks are those the named document has under the path.
C30_GroupedResultIsOfOneDocument ==
  last.op = "search_catalog_fulltext" =>
    \A k \in 1..Len(last.result) :
      LET result == last.result[k]
      IN  result.chunks
            = Contents(FilterChunks(Members(result.catalog_path), result.document_id, TRUE))
====
